---- MODULE Spec2Model ----
(***************************************************************************)
(* Milk Digitalization (app.py): the process-step derivation of the        *)
(* product page (_product_steps) and the numeric parser of measurement     *)
(* text (parse_numeric).                                                   *)
(*                                                                         *)
(* Text is modelled as a sequence of Unicode code points, so that          *)
(* str.lower(), str.strip(), str.replace() and the `in` substring test are *)
(* computed character by character as Python computes them.                *)
(***************************************************************************)
EXTENDS Integers, Sequences, FiniteSets, TLC

VARIABLES
    norms,               \* app.py:230-236  the loaded norms configuration
    prod,                \* app.py:617-624  the product dict of the product page
    steps,               \* app.py:668      result of _product_steps(prod)
    selected_step,       \* app.py:301,672  st.session_state['selected_step']
    shown_norm,          \* app.py:686-693  norm displayed for the selected step
    prev,                \* the (prod, steps) of the previous derivation of the session
    val,                 \* app.py:214      a cell of measurements['actual_value']
    actual_numeric,      \* app.py:214      the cell of measurements['actual_numeric']
    pc,                  \* position of the script run
    stores,              \* app.py:29-34    the files of DATA_DIR, by store
    cache,               \* app.py:149      the st.cache_data entry of load_csvs
    df,                  \* app.py:44-210   the table a load works on; in a session, the
                         \*                 tables of the head of the script run
    last,                \* the outcome of the last operation of the session
    clock                \* app.py:748      the time of the last script run that read it,
                         \*                 in whole seconds

vars == <<norms, prod, steps, selected_step, shown_norm, prev, val, actual_numeric, pc,
          stores, cache, df, last, clock>>

\* the state of the data directory and of the load
dataVars == <<stores, cache, df, last>>

-----------------------------------------------------------------------------
(* Bounds *)

\* number of fragments a product name is built from
MaxFrags == 3
\* number of fragments a measurement text is built from
MaxParts == 3

-----------------------------------------------------------------------------
(* Text helpers: Python str methods on code-point sequences *)

\* str.isspace() for one character
IsSpace(c) == c \in {9, 10, 11, 12, 13, 28, 29, 30, 31, 32, 133, 160}

\* str.lower() for one character: ASCII, Latin-1 and Cyrillic capitals
LowerCh(c) ==
    IF c >= 65 /\ c <= 90 THEN c + 32
    ELSE IF c >= 192 /\ c <= 222 /\ c # 215 THEN c + 32
    ELSE IF c >= 1040 /\ c <= 1071 THEN c + 32
    ELSE IF c >= 1024 /\ c <= 1039 THEN c + 80
    ELSE c

Lower(s) == [i \in 1..Len(s) |-> LowerCh(s[i])]

\* str.strip(): drop leading and trailing whitespace
Strip(s) ==
    LET keep == {i \in 1..Len(s) : ~IsSpace(s[i])}
    IN  IF keep = {} THEN <<>>
        ELSE LET lo == CHOOSE i \in keep : \A j \in keep : i <= j
                 hi == CHOOSE i \in keep : \A j \in keep : i >= j
             IN  SubSeq(s, lo, hi)

\* the `pat in s` substring test
Contains(pat, s) ==
    \E i \in 0..(Len(s) - Len(pat)) : SubSeq(s, i + 1, i + Len(pat)) = pat

\* all concatenations of at most n members of F
RECURSIVE Concats(_, _)
Concats(F, n) ==
    IF n = 0 THEN {<<>>}
    ELSE LET r == Concats(F, n - 1) IN r \cup {a \o b : a \in r, b \in F}

-----------------------------------------------------------------------------
(* The literals of _product_steps *)

s_ayran   == <<1072, 1081, 1088, 1072, 1085>>                \* "айран"
s_irimshik == <<1110, 1088, 1110, 1084, 1096, 1110, 1082>>   \* "ірімшік"
s_syr     == <<1089, 1099, 1088>>                            \* "сыр"
s_moloko  == <<1084, 1086, 1083, 1086, 1082, 1086>>          \* "молоко"
s_kozye   == <<1082, 1086, 1079, 1100, 1077>>                \* "козье"
s_koziy   == <<1082, 1086, 1079, 1080, 1081>>                \* "козий"
s_goat    == <<103, 111, 97, 116>>                           \* "goat"
s_eshki   == <<1077, 1096, 1082, 1110>>                      \* "ешкі"

\* the empty dict {} that _stage substitutes for a missing norm
NoNorm == [k \in {} |-> 0]

\* _stage(id, label, icon, desc, norm=None); icon and desc are decorative
\* constants of the id and label and are carried by the label token
_stage(id, label, norm) == [id |-> id, label |-> label, norm |-> norm]

\* prod.get(key, default)
Get(p, key, default) == IF key \in DOMAIN p THEN p[key] ELSE default

-----------------------------------------------------------------------------
(* Norms configuration, app.py:225-236 *)

default_norms ==
    [Pasteurization |-> [min |-> 72, max |-> 75, unit |-> "degC", note |-> "typical pasteurization 72-75"],
     Cooling        |-> [min |-> 2,  max |-> 6,  unit |-> "degC", note |-> "storage/cooling"],
     Fermentation   |-> [min |-> 18, max |-> 42, unit |-> "degC", note |-> "fermentation depends on recipe"]]

\* contents process_norms.json may have: absent, malformed, or a JSON object
NormsFiles ==
    {[exists |-> FALSE],
     [exists |-> TRUE, valid |-> FALSE],
     [exists |-> TRUE, valid |-> TRUE, json |->
        [Pasteurization |-> [min |-> 80, max |-> 85, unit |-> "degC", note |-> "override"]]],
     [exists |-> TRUE, valid |-> TRUE, json |->
        [Pasteurization |-> [min |-> 63, max |-> 65, unit |-> "degC", note |-> "override"],
         Cooling        |-> [min |-> 0,  max |-> 4,  unit |-> "degC", note |-> "override"],
         Fermentation   |-> [min |-> 30, max |-> 40, unit |-> "degC", note |-> "override"]]]}

\* app.py:230-236
LoadNorms(f) ==
    IF f.exists
    THEN IF f.valid THEN f.json ELSE default_norms
    ELSE default_norms

-----------------------------------------------------------------------------
(* _product_steps, app.py:469-553 *)

is_ayran(nlow)  == Contains(s_ayran, nlow)

\* variant: the Kazakh term for cheese is not recognized
is_cheese_only_syr(nlow) == Contains(s_syr, nlow)

is_cheese(nlow) == Contains(s_irimshik, nlow) \/ Contains(s_syr, nlow)

is_milk(nlow)   == Contains(s_moloko, nlow)

\* variant: the goat synonyms are looked for in the name only
goat_name_only(nlow, slow) ==
    \/ Contains(s_kozye, nlow) \/ Contains(s_koziy, nlow)
    \/ Contains(s_goat, nlow)  \/ Contains(s_eshki, nlow)

\* app.py:492-495
goat(nlow, slow) ==
    \/ Contains(s_kozye, nlow) \/ Contains(s_koziy, nlow)
    \/ Contains(s_goat, nlow)  \/ Contains(s_eshki, nlow)
    \/ Contains(s_kozye, slow) \/ Contains(s_koziy, slow)
    \/ Contains(s_goat, slow)  \/ Contains(s_eshki, slow)

\* variant: cheese is homogenized whatever the raw material
need_homogenization_cheese_always(nlow, slow) ==
    is_ayran(nlow) \/ (is_milk(nlow) /\ ~goat(nlow, slow)) \/ is_cheese(nlow)

\* variant: everything that is not goat-sourced is homogenized
need_homogenization_unless_goat(nlow, slow) ==
    is_ayran(nlow) \/ ~goat(nlow, slow)

\* variant: the fermented drink is left out of the rule
need_homogenization_no_ayran(nlow, slow) ==
    (is_milk(nlow) /\ ~goat(nlow, slow)) \/ (is_cheese(nlow) /\ ~goat(nlow, slow))

\* app.py:508
need_homogenization(nlow, slow) ==
    is_ayran(nlow) \/ (is_milk(nlow) /\ ~goat(nlow, slow)) \/ (is_cheese(nlow) /\ ~goat(nlow, slow))

\* app.py:497-505
common_prefix ==
    << _stage("accept", "Priemka syrya", NoNorm),
       _stage("clarify", "Ochistka i sortirovka (4-6 C)",
              [min |-> 4, max |-> 6, unit |-> "degC", note |-> "cooling to 4-6 slows bacteria"]),
       _stage("normalization", "Normalizatsiya sostava", NoNorm) >>

\* app.py:510-511
homogenization_stage == _stage("homogenization", "Gomogenizatsiya", NoNorm)

\* app.py:514-518
pasteurization_stage ==
    _stage("pasteurization", "Pasterizatsiya (65-69 C)",
           [min |-> 65, max |-> 69, unit |-> "degC", note |-> "pasteurization per recipe/GOST"])

\* app.py:522-533
ayran_tail ==
    << _stage("cool_to_inoc", "Okhlazhdenie do zakvashivaniya (35-45 C)", [min |-> 35, max |-> 45, unit |-> "degC"]),
       _stage("inoculation", "Vnesenie zakvaski", NoNorm),
       _stage("fermentation", "Skvashivanie (20-25 C)", [min |-> 20, max |-> 25, unit |-> "degC"]),
       _stage("salt", "Dobavlenie soli (1.5-2%)", NoNorm),
       _stage("mix_water", "Smeshivanie s vodoy / gazirovanie", NoNorm),
       _stage("mature", "Sozrevanie v butylkakh", NoNorm),
       _stage("label", "Rozliv/upakovka/markirovka", NoNorm) >>

\* app.py:535-544
cheese_tail ==
    << _stage("prep_cheese", "Podgotovka k vyrabotke", NoNorm),
       _stage("rennet", "Sychuzhnoe svertyvanie", NoNorm),
       _stage("curd", "Obrabotka sgustka", NoNorm),
       _stage("form", "Formovanie", NoNorm),
       _stage("press", "Samopressovanie/pressovanie", NoNorm),
       _stage("salt_dry", "Posolka/obsushka", NoNorm),
       _stage("ripen", "Sozrevanie", NoNorm),
       _stage("label", "Upakovka/khranenie/realizatsiya", NoNorm) >>

\* app.py:546-551
milk_tail ==
    << _stage("cooling", "Okhlazhdenie (2-6 C)", [min |-> 2, max |-> 6, unit |-> "degC"]),
       _stage("steril", "Sterilizatsiya / UHT", NoNorm),
       _stage("label", "Rozliv/upakovka/markirovka", NoNorm) >>

\* variant: the cheese branch is tested before the fermented-drink branch
tail_cheese_first(nlow) ==
    IF is_cheese(nlow) THEN cheese_tail
    ELSE IF is_ayran(nlow) THEN ayran_tail
    ELSE milk_tail

\* app.py:520-551: the tail is chosen by if / elif / else
tail(nlow) ==
    IF is_ayran(nlow) THEN ayran_tail
    ELSE IF is_cheese(nlow) THEN cheese_tail
    ELSE milk_tail

\* app.py:480-484
nlow_of(p) == Lower(Strip(Get(p, "name", <<>>)))
slow_of(p) == Lower(Strip(Get(p, "source", <<>>)))

\* variant: pasteurization is appended inside the homogenization branch
_product_steps_nested_pasteurization(p) ==
    LET nlow == nlow_of(p)
        slow == slow_of(p)
        common == IF need_homogenization(nlow, slow)
                  THEN Append(Append(common_prefix, homogenization_stage), pasteurization_stage)
                  ELSE common_prefix
    IN  common \o tail(nlow)

\* variant: the type column takes part in choosing the tail
_product_steps_by_type(p) ==
    LET nlow == nlow_of(p)
        slow == slow_of(p)
        common == IF need_homogenization(nlow, slow)
                  THEN Append(common_prefix, homogenization_stage)
                  ELSE common_prefix
    IN  Append(common, pasteurization_stage)
            \o (IF is_ayran(nlow) THEN ayran_tail
                ELSE IF is_cheese(nlow) \/ Get(p, "type", "-") = "syr" THEN cheese_tail
                ELSE milk_tail)

_product_steps(p) ==
    LET nlow == nlow_of(p)
        slow == slow_of(p)
        common == IF need_homogenization(nlow, slow)
                  THEN Append(common_prefix, homogenization_stage)
                  ELSE common_prefix
    IN  Append(common, pasteurization_stage) \o tail(nlow)

-----------------------------------------------------------------------------
(* parse_numeric, app.py:65-88 *)

\* np.nan
NaN == [nan |-> TRUE]

\* a float: (-1)^neg * dig * 10^exp, dig a digit sequence read as an integer
\* without leading or trailing zeros (empty for 0.0); inf when too large
Inf(neg) == [inf |-> TRUE, neg |-> neg]

RECURSIVE StripLeadingZeros(_)
StripLeadingZeros(d) ==
    IF d # <<>> /\ Head(d) = 0 THEN StripLeadingZeros(Tail(d)) ELSE d

RECURSIVE NormFloat(_, _, _)
NormFloat(neg, d, e) ==
    IF d = <<>> THEN [neg |-> FALSE, dig |-> <<>>, exp |-> 0]
    ELSE IF d[Len(d)] = 0 THEN NormFloat(neg, SubSeq(d, 1, Len(d) - 1), e + 1)
    ELSE IF Len(d) + e > 309 THEN Inf(neg)
    ELSE IF Len(d) + e < -324 THEN [neg |-> FALSE, dig |-> <<>>, exp |-> 0]
    ELSE [neg |-> neg, dig |-> d, exp |-> e]

\* str.replace(old, new): left to right, non-overlapping
RECURSIVE Replace(_, _, _)
Replace(s, old, new) ==
    IF Len(s) < Len(old) THEN s
    ELSE IF SubSeq(s, 1, Len(old)) = old
         THEN new \o Replace(SubSeq(s, Len(old) + 1, Len(s)), old, new)
         ELSE <<Head(s)>> \o Replace(Tail(s), old, new)

\* s.split(sep)[0]
BeforeFirst(s, sep) ==
    LET hits == {i \in 1..Len(s) : s[i] = sep}
    IN  IF hits = {} THEN s
        ELSE SubSeq(s, 1, (CHOOSE i \in hits : \A j \in hits : i <= j) - 1)

\* str.isdigit(): ASCII digits, superscript digits, Arabic-Indic digits
IsDigit(c) == (c >= 48 /\ c <= 57) \/ c \in {178, 179, 185} \/ (c >= 1632 /\ c <= 1641)

\* the characters float() reads as decimal digits
IsDecimal(c) == (c >= 48 /\ c <= 57) \/ (c >= 1632 /\ c <= 1641)
DigitVal(c) == IF c <= 57 THEN c - 48 ELSE c - 1632

c_space == 32
c_comma == 44
c_dot   == 46
c_plus  == 43
c_minus == 45
c_e     == 101
c_E     == 69
c_pm    == 177
s_marker == <<1085, 1077, 32, 1086, 1073, 1085, 1072, 1088, 1091, 1078>>   \* "не обнаруж"
s_mul10pow == <<215, 49, 48, 94>>     \* "×10^"
s_x10pow   == <<120, 49, 48, 94>>     \* "x10^"
s_mul10    == <<215, 49, 48>>         \* "×10"
s_x10      == <<120, 49, 48>>         \* "x10"
s_mul      == <<215>>                 \* "×"

\* app.py:79-84: the leading run of characters of a numeric literal
RECURSIVE Cleaned(_)
Cleaned(s) ==
    IF s = <<>> THEN <<>>
    ELSE IF IsDigit(Head(s)) \/ Head(s) \in {c_dot, c_minus, c_plus, c_e, c_E}
         THEN <<Head(s)>> \o Cleaned(Tail(s))
         ELSE <<>>

RECURSIVE DecimalPrefixLen(_)
DecimalPrefixLen(s) ==
    IF s # <<>> /\ IsDecimal(Head(s)) THEN 1 + DecimalPrefixLen(Tail(s)) ELSE 0

Drop(s, n) == SubSeq(s, n + 1, Len(s))
DigitsOf(s) == [i \in 1..Len(s) |-> DigitVal(s[i])]

RECURSIVE IntOf(_)
IntOf(d) == IF d = <<>> THEN 0 ELSE 10 * IntOf(SubSeq(d, 1, Len(d) - 1)) + d[Len(d)]

\* float(text) on a text of digits, signs, points and exponent markers:
\* [sign] (digits [. [digits]] | . digits) [(e|E) [sign] digits]; anything
\* else raises ValueError, which is reported as the record [error |-> TRUE]
ValueError == [error |-> TRUE]

\* the sign and the digits before the point
float_int(c) ==
    LET sgn    == IF c # <<>> /\ c[1] \in {c_plus, c_minus} THEN 1 ELSE 0
        intLen == DecimalPrefixLen(Drop(c, sgn))
    IN  [neg |-> sgn = 1 /\ c[1] = c_minus, body |-> Drop(c, sgn), intLen |-> intLen,
         rest1 |-> Drop(Drop(c, sgn), intLen)]

\* the point and the digits after it
float_frac(a) ==
    LET hasDot  == a.rest1 # <<>> /\ a.rest1[1] = c_dot
        rest2   == IF hasDot THEN Tail(a.rest1) ELSE a.rest1
        fracLen == IF hasDot THEN DecimalPrefixLen(rest2) ELSE 0
    IN  [neg |-> a.neg, body |-> a.body, intLen |-> a.intLen, rest2 |-> rest2,
         fracLen |-> fracLen, rest3 |-> Drop(rest2, fracLen)]

\* the exponent marker, its sign and its digits
float_exp(b) ==
    LET hasExp == b.rest3 # <<>> /\ b.rest3[1] \in {c_e, c_E}
        rest4  == IF hasExp THEN Tail(b.rest3) ELSE b.rest3
        esgn   == IF hasExp /\ rest4 # <<>> /\ rest4[1] \in {c_plus, c_minus} THEN 1 ELSE 0
    IN  [neg |-> b.neg, body |-> b.body, intLen |-> b.intLen, rest2 |-> b.rest2,
         fracLen |-> b.fracLen, rest3 |-> b.rest3, hasExp |-> hasExp,
         eneg |-> esgn = 1 /\ rest4[1] = c_minus, edigs |-> Drop(rest4, esgn)]

\* the value of the parts of a well-formed literal
float_value(e) ==
    LET expLen == IF e.hasExp THEN DecimalPrefixLen(e.edigs) ELSE 0
        wellFormed ==
            /\ e.intLen + e.fracLen >= 1
            /\ IF e.hasExp THEN expLen >= 1 /\ expLen = Len(e.edigs) ELSE e.rest3 = <<>>
        mant == StripLeadingZeros(DigitsOf(SubSeq(e.body, 1, e.intLen)
                                            \o SubSeq(e.rest2, 1, e.fracLen)))
        esig == StripLeadingZeros(DigitsOf(e.edigs))
    IN  IF ~wellFormed THEN ValueError
        ELSE IF mant = <<>> THEN NormFloat(FALSE, <<>>, 0)
        ELSE IF Len(esig) > 4
             THEN (IF e.eneg THEN NormFloat(FALSE, <<>>, 0) ELSE Inf(e.neg))
        ELSE NormFloat(e.neg, mant,
                       (IF e.eneg THEN 0 - IntOf(esig) ELSE IntOf(esig)) - e.fracLen)

PyFloat(c) == float_value(float_exp(float_frac(float_int(c))))

\* float(val) of an int cell
RECURSIVE DigitsOfNat(_)
DigitsOfNat(n) == IF n = 0 THEN <<>> ELSE Append(DigitsOfNat(n \div 10), n % 10)

FloatOfInt(n) == IF n < 0 THEN NormFloat(TRUE, DigitsOfNat(0 - n), 0) ELSE NormFloat(FALSE, DigitsOfNat(n), 0)

\* variant: the marker is looked for without lower-casing the text
is_not_detected_case_sensitive(s) == s = <<>> \/ Contains(s_marker, s)

\* app.py:71-72: the stripped text and the early return on it
stripped(v) == Strip(v.s)
is_not_detected(s) == s = <<>> \/ Contains(s_marker, Lower(s))

\* variant: the spaces between digit groups are not removed
normalized_keep_spaces(s) ==
    LET s1 == Replace(s, <<c_comma>>, <<c_dot>>)
        s2 == Replace(Replace(s1, s_mul10pow, <<c_e>>), s_x10pow, <<c_e>>)
        s3 == Replace(Replace(Replace(s2, s_mul10, <<c_e>>), s_x10, <<c_e>>), s_mul, <<>>)
    IN  BeforeFirst(s3, c_pm)

\* app.py:74-78
normalized(s) ==
    LET s1 == Replace(Replace(s, <<c_space>>, <<>>), <<c_comma>>, <<c_dot>>)
        s2 == Replace(Replace(s1, s_mul10pow, <<c_e>>), s_x10pow, <<c_e>>)
        s3 == Replace(Replace(Replace(s2, s_mul10, <<c_e>>), s_x10, <<c_e>>), s_mul, <<>>)
    IN  BeforeFirst(s3, c_pm)

\* variant: the float conversion is not guarded by try/except
parse_numeric_unguarded(v) ==
    IF v.kind = "na" THEN NaN
    ELSE IF v.kind = "num" THEN FloatOfInt(v.n)
    ELSE IF is_not_detected(stripped(v)) THEN NaN
    ELSE PyFloat(Cleaned(normalized(stripped(v))))

parse_numeric(v) ==
    IF v.kind = "na" THEN NaN
    ELSE IF v.kind = "num" THEN FloatOfInt(v.n)
    ELSE IF is_not_detected(stripped(v)) THEN NaN
    ELSE LET f == PyFloat(Cleaned(normalized(stripped(v))))
         IN  IF f = ValueError THEN NaN ELSE f

\* fragments measurement texts are built from
Parts ==
    { <<49, 46, 50>>,                 \* "1.2"
      <<53, 44, 48>>,                 \* "5,0"
      <<49, 50>>,                     \* "12"
      <<32, 51, 48, 48>>,             \* " 300"
      <<54>>,                         \* "6"
      <<50>>,                         \* "2"
      <<45>>,                         \* "-"
      <<101>>,                        \* "e"
      <<177>>,                        \* "±"
      s_mul10pow,                     \* "×10^"
      s_x10pow,                       \* "x10^"
      s_mul10,                        \* "×10"
      s_x10,                          \* "x10"
      s_mul,                          \* "×"
      s_marker,                       \* "не обнаруж"
      <<1053, 1045, 32, 1054, 1041, 1053, 1040, 1056, 1059, 1046, 1045, 1053, 1054>>, \* "НЕ ОБНАРУЖЕНО"
      <<32>>,                         \* " "
      <<9>>,                          \* tab
      <<97, 98, 99>> }                \* "abc"

Texts == Concats(Parts, MaxParts)

\* cells of the actual_value column: text, a number, or a missing value
Cells ==
    {[kind |-> "str", s |-> t] : t \in Texts}
    \cup {[kind |-> "num", n |-> n] : n \in {0, 42, -3}}
    \cup {[kind |-> "na"]}

-----------------------------------------------------------------------------
(* Product inputs *)

\* fragments product names are built from
NameFrags ==
    { <<1052, 1086, 1083, 1086, 1082, 1086>>,                               \* "Молоко"
      <<1040, 1081, 1088, 1072, 1085>>,                                     \* "Айран"
      <<1057, 1067, 1056>>,                                                 \* "СЫР"
      <<1057, 1072, 1088, 1099, 32, 1110, 1088, 1110, 1084, 1096, 1110, 1082>>, \* "Сары ірімшік"
      <<32, 40, 1082, 1086, 1079, 1100, 1077, 41>>,                         \* " (козье)"
      <<32, 40, 1082, 1086, 1088, 1086, 1074, 1100, 1077, 41>>,             \* " (коровье)"
      <<71, 111, 97, 116, 32>>,                                             \* "Goat "
      <<1050, 1077, 1092, 1080, 1088>> }                                    \* "Кефир"

Names == Concats(NameFrags, MaxFrags)

src_cow   == <<1082, 1086, 1088, 1086, 1074, 1100, 1077>>    \* "коровье"
src_goat  == s_kozye                                         \* "козье"
src_Koziy == <<1050, 1086, 1079, 1080, 1081>>                \* "Козий"
src_ESHKI == <<32, 1045, 1064, 1050, 1030, 32>>              \* " ЕШКІ "
src_dash  == <<45>>                                          \* "-"

Sources == {src_cow, src_goat, src_Koziy, src_ESHKI, src_dash}

\* product dicts handed to _product_steps: a row of the products table
\* (which may lack the source column) or the fallback dict of app.py:623-624
StepInputs ==
    {[product_id |-> 1, name |-> n, type |-> "-", source |-> s, description |-> ""] :
        n \in Names, s \in Sources}
    \cup {[product_id |-> 1, name |-> n, type |-> "-", description |-> ""] : n \in Names}

name_milk_goat   == <<1052, 1086, 1083, 1086, 1082, 1086>> \o <<32, 40, 1082, 1086, 1079, 1100, 1077, 41>>
name_cheese_goat == <<1057, 1072, 1088, 1099, 32, 1110, 1088, 1110, 1084, 1096, 1110, 1082>>
                        \o <<32, 40, 1082, 1086, 1079, 1100, 1077, 41>>
name_milk_cow    == <<1052, 1086, 1083, 1086, 1082, 1086>> \o <<32, 40, 1082, 1086, 1088, 1086, 1074, 1100, 1077, 41>>
name_cheese_cow  == <<1057, 1072, 1088, 1099, 32, 1110, 1088, 1110, 1084, 1096, 1110, 1082>>
                        \o <<32, 40, 1082, 1086, 1088, 1086, 1074, 1100, 1077, 41>>
name_ayran       == <<1040, 1081, 1088, 1072, 1085>>

\* app.py:115-119 and 383-387: the fixed five products (id, name, source)
fixed_products ==
    { <<1, name_milk_cow, src_cow>>, <<2, name_milk_goat, src_goat>>,
      <<3, name_cheese_cow, src_cow>>, <<4, name_cheese_goat, src_goat>>,
      <<5, name_ayran, src_cow>> }

\* rows a products table can hold for them: any type, description and id
CatalogProducts ==
    UNION {
      {[product_id |-> i, name |-> f[2], type |-> t, source |-> f[3], description |-> d] :
          i \in {f[1], 7}, t \in {"moloko", "syr"}, d \in {"", "svezhee"}}
      : f \in fixed_products }

-----------------------------------------------------------------------------
(* State *)

None == "None"
NoPrev == [none |-> TRUE]

\* pd.DataFrame(): no columns, no rows
EmptyFrame == [columns |-> <<>>, rows |-> <<>>]
\* load_csvs has no cached result
NoCache == [loaded |-> FALSE]
\* no operation has run yet
NoOp == [op |-> "none"]

NormsLoaded == {LoadNorms(f) : f \in NormsFiles}

InitCommon ==
    /\ norms \in NormsLoaded
    /\ steps = <<>>
    /\ selected_step = None
    /\ shown_norm = NoNorm
    /\ prev = NoPrev
    /\ stores = <<>>
    /\ cache = NoCache
    /\ df = EmptyFrame
    /\ last = NoOp
    /\ clock = 0

\* app.py:462-668: the product page runs and derives the step list
DeriveSteps ==
    /\ pc = "page"
    /\ steps' = _product_steps(prod)
    /\ pc' = "derived"
    /\ UNCHANGED <<clock, norms, prod, selected_step, shown_norm, prev, val, actual_numeric>>
    /\ UNCHANGED dataVars

\* app.py:686-689: the norm of the first step whose id is the selected one
norm_of(sel, st) ==
    LET hits == {i \in 1..Len(st) : st[i].id = sel}
    IN  IF hits = {} THEN NoNorm
        ELSE st[CHOOSE i \in hits : \A j \in hits : i <= j].norm

\* app.py:669-693: a step card is clicked, the script reruns, derives the
\* steps again and shows the details of the selected step
SelectStep(i) ==
    /\ pc = "derived"
    /\ i \in 1..Len(steps)
    /\ selected_step' = steps[i].id
    /\ prev' = [prod |-> prod, steps |-> steps]
    /\ steps' = _product_steps(prod)
    /\ shown_norm' = norm_of(steps[i].id, _product_steps(prod))
    /\ pc' = "derived"
    /\ UNCHANGED <<clock, norms, prod, val, actual_numeric>>
    /\ UNCHANGED dataVars

\* app.py:366-371, 416-418: a product is opened from the main page
goto_product(p) ==
    /\ pc = "derived"
    /\ prev' = [prod |-> prod, steps |-> steps]
    /\ prod' = p
    /\ selected_step' = None
    /\ shown_norm' = NoNorm
    /\ steps' = <<>>
    /\ pc' = "page"
    /\ UNCHANGED <<clock, norms, val, actual_numeric>>
    /\ UNCHANGED dataVars

\* step derivation over all bounded (name, source) inputs
InitSteps ==
    /\ InitCommon
    /\ prod \in StepInputs
    /\ val = [kind |-> "na"]
    /\ actual_numeric = NaN
    /\ pc = "page"

NextSteps == DeriveSteps

SpecSteps == InitSteps /\ [][NextSteps]_vars

\* a session on the product page over the rows of the catalog
InitPage ==
    /\ InitCommon
    /\ prod \in CatalogProducts
    /\ val = [kind |-> "na"]
    /\ actual_numeric = NaN
    /\ pc = "page"

NextPage ==
    \/ DeriveSteps
    \/ \E i \in 1..Len(steps) : SelectStep(i)
    \/ \E p \in CatalogProducts : goto_product(p)

SpecPage == InitPage /\ [][NextPage]_vars

ids(st) == [i \in 1..Len(st) |-> st[i].id]

\* app.py:213-214: the actual_value cell is parsed into actual_numeric
ParseCell ==
    /\ pc = "load"
    /\ actual_numeric' = parse_numeric(val)
    /\ pc' = "parsed"
    /\ UNCHANGED <<clock, norms, prod, steps, selected_step, shown_norm, prev, val>>
    /\ UNCHANGED dataVars

\* the parser over all bounded cells
InitParse ==
    /\ InitCommon
    /\ norms = default_norms
    /\ prod = [product_id |-> 5, name |-> name_ayran, type |-> "-", source |-> src_cow, description |-> ""]
    /\ val \in Cells
    /\ actual_numeric = NaN
    /\ pc = "load"

NextParse == ParseCell

SpecParse == InitParse /\ [][NextParse]_vars

-----------------------------------------------------------------------------
(* Properties of the step derivation *)

\* the claims' reading of the inputs: the name and source as given
name_of(p)   == Get(p, "name", <<>>)
source_of(p) == Get(p, "source", <<>>)
NameHas(pat) == Contains(pat, Lower(name_of(prod)))
GoatSynonyms == {s_kozye, s_koziy, s_goat, s_eshki}
GoatSourced ==
    \E g \in GoatSynonyms :
        Contains(g, Lower(name_of(prod))) \/ Contains(g, Lower(source_of(prod)))
NameIsCheese == NameHas(s_irimshik) \/ NameHas(s_syr)

HasStep(id) == \E i \in 1..Len(steps) : steps[i].id = id
PositionsOf(id) == {i \in 1..Len(steps) : steps[i].id = id}

\* the steps that follow the (first) pasteurization step
AfterPasteurization ==
    IF PositionsOf("pasteurization") = {} THEN <<>>
    ELSE LET k == CHOOSE i \in PositionsOf("pasteurization") :
                      \A j \in PositionsOf("pasteurization") : i <= j
         IN  SubSeq(steps, k + 1, Len(steps))

AyranTailIds  == <<"cool_to_inoc", "inoculation", "fermentation", "salt", "mix_water", "mature", "label">>
CheeseTailIds == <<"prep_cheese", "rennet", "curd", "form", "press", "salt_dry", "ripen", "label">>
MilkTailIds   == <<"cooling", "steril", "label">>
PrefixIds     == {"accept", "clarify", "normalization", "homogenization", "pasteurization"}

EndsWith(seq, suffix) ==
    /\ Len(seq) >= Len(suffix)
    /\ SubSeq(seq, Len(seq) - Len(suffix) + 1, Len(seq)) = suffix

\* C1: a homogenization step is emitted iff the lower-cased name contains
\* "айран", or contains "молоко" with no goat synonym in name or source, or
\* contains "ірімшік"/"сыр" with no goat synonym in name or source; when
\* emitted it sits directly between normalization and pasteurization.
C1_HomogenizationRule ==
    pc = "derived" =>
        /\ HasStep("homogenization") <=>
              \/ NameHas(s_ayran)
              \/ (NameHas(s_moloko) /\ ~GoatSourced)
              \/ (NameIsCheese /\ ~GoatSourced)
        /\ \A i \in PositionsOf("homogenization") :
              /\ i > 1 /\ i < Len(steps)
              /\ steps[i - 1].id = "normalization"
              /\ steps[i + 1].id = "pasteurization"

C1_Witness ==
    /\ pc = "derived"
    /\ NameIsCheese /\ ~NameHas(s_ayran) /\ ~NameHas(s_moloko) /\ ~GoatSourced
    /\ HasStep("homogenization")

\* C2 (as stated): homogenization is included for every input except the
\* goat-sourced ones with the milk tail or the cheese tail; in particular
\* every non-goat input gets a homogenization step.
C2_Original ==
    pc = "derived" =>
        (HasStep("homogenization") <=>
            ~(GoatSourced /\ ids(AfterPasteurization) \in {MilkTailIds, CheeseTailIds}))

\* C2 (amended): homogenization is left out exactly for the inputs with the
\* milk or cheese tail that are goat-sourced, and for the inputs that get the
\* milk tail although the name does not contain "молоко".
C2_Amended ==
    pc = "derived" =>
        (HasStep("homogenization") <=>
            ~ \/ (GoatSourced /\ ids(AfterPasteurization) \in {MilkTailIds, CheeseTailIds})
              \/ (ids(AfterPasteurization) = MilkTailIds /\ ~NameHas(s_moloko)))

C2_Witness ==
    /\ pc = "derived"
    /\ ~GoatSourced
    /\ name_of(prod) # <<>>
    /\ ids(AfterPasteurization) = MilkTailIds
    /\ ~HasStep("homogenization")

\* C3: the step list is non-empty, begins with accept, clarify,
\* normalization, and has exactly one pasteurization step, placed after
\* those three (and after homogenization when present) and before every
\* tail step.
C3_PrefixAndPasteurization ==
    pc = "derived" =>
        /\ Len(steps) >= 4
        /\ ids(SubSeq(steps, 1, 3)) = <<"accept", "clarify", "normalization">>
        /\ Cardinality(PositionsOf("pasteurization")) = 1
        /\ \A k \in PositionsOf("pasteurization") :
              /\ k = (IF HasStep("homogenization") THEN 5 ELSE 4)
              /\ HasStep("homogenization") => steps[4].id = "homogenization"
              /\ \A i \in (k + 1)..Len(steps) : steps[i].id \notin PrefixIds
              /\ Len(steps) > k

C3_Witness ==
    /\ pc = "derived"
    /\ name_of(prod) = <<>>
    /\ "source" \notin DOMAIN prod
    /\ Len(steps) = 7

\* C4: a product whose name matches milk (not ayran, not cheese) and that
\* is goat-sourced by name or source gets exactly accept, clarify,
\* normalization, pasteurization, cooling, steril, label.
C4_GoatMilkSteps ==
    (pc = "derived" /\ NameHas(s_moloko) /\ ~NameHas(s_ayran) /\ ~NameIsCheese /\ GoatSourced) =>
        ids(steps) = <<"accept", "clarify", "normalization", "pasteurization",
                       "cooling", "steril", "label">>

C4_Witness ==
    /\ pc = "derived"
    /\ name_of(prod) = name_milk_goat
    /\ source_of(prod) = src_goat
    /\ Len(steps) = 7

\* C5: a product whose name contains "айран", goat-sourced or not, gets a
\* homogenization step and ends with the fermented-drink tail in order.
C5_AyranSteps ==
    (pc = "derived" /\ NameHas(s_ayran)) =>
        /\ HasStep("homogenization")
        /\ EndsWith(ids(steps), AyranTailIds)
        /\ ids(AfterPasteurization) = AyranTailIds

C5_Witness ==
    /\ pc = "derived"
    /\ name_of(prod) = name_ayran
    /\ source_of(prod) = src_cow
    /\ HasStep("fermentation")

\* C6: a product whose name matches cheese and not ayran and that is
\* goat-sourced gets no homogenization step and ends with the cheese tail.
C6_GoatCheeseSteps ==
    (pc = "derived" /\ NameIsCheese /\ ~NameHas(s_ayran) /\ GoatSourced) =>
        /\ ~HasStep("homogenization")
        /\ EndsWith(ids(steps), CheeseTailIds)
        /\ ids(AfterPasteurization) = CheeseTailIds

C6_Witness ==
    /\ pc = "derived"
    /\ name_of(prod) = name_cheese_goat
    /\ source_of(prod) = src_goat
    /\ HasStep("rennet")

\* C7 (as stated): at most one of the fermented-drink, cheese and milk
\* matchers holds of a name, and a name matching the milk term never
\* receives a non-milk tail.
C7_Original ==
    pc = "derived" =>
        /\ Cardinality({m \in {"ayran", "cheese", "milk"} :
                \/ (m = "ayran" /\ NameHas(s_ayran))
                \/ (m = "cheese" /\ NameIsCheese)
                \/ (m = "milk" /\ NameHas(s_moloko))}) <= 1
        /\ NameHas(s_moloko) => AfterPasteurization = milk_tail

\* C7 (amended): the matchers may hold together; exactly one tail is
\* emitted, chosen by fixed priority: the fermented-drink tail when the name
\* contains "айран", otherwise the cheese tail when it contains "ірімшік" or
\* "сыр", otherwise the milk tail.
C7_Amended ==
    pc = "derived" =>
        /\ (AfterPasteurization = ayran_tail)  <=> NameHas(s_ayran)
        /\ (AfterPasteurization = cheese_tail) <=> (~NameHas(s_ayran) /\ NameIsCheese)
        /\ (AfterPasteurization = milk_tail)   <=> (~NameHas(s_ayran) /\ ~NameIsCheese)

C7_Witness ==
    /\ pc = "derived"
    /\ NameHas(s_moloko) /\ NameIsCheese /\ NameHas(s_ayran)
    /\ AfterPasteurization = ayran_tail

\* the norm the configuration resolves for a process name: the loaded
\* override when it has the name, else the built-in default
ResolvedNorm(k) == IF k \in DOMAIN norms THEN norms[k] ELSE default_norms[k]

ProcessName(id) ==
    IF id = "pasteurization" THEN "Pasteurization"
    ELSE IF id = "cooling" THEN "Cooling"
    ELSE "Fermentation"

\* C8: the norm carried by the pasteurization, cooling and fermentation
\* steps is the configured override for that process when there is one and
\* the built-in default of default_norms otherwise.
C8_NormFromConfiguration ==
    pc = "derived" =>
        \A i \in 1..Len(steps) :
            steps[i].id \in {"pasteurization", "cooling", "fermentation"} =>
                steps[i].norm = ResolvedNorm(ProcessName(steps[i].id))

\* C9: two derivations of a session whose products agree on name and
\* source, whatever their product_id, type and description, yield the same
\* step list (ids, labels, order, norms).
C9_DependsOnNameAndSource ==
    (/\ pc = "derived"
     /\ "steps" \in DOMAIN prev
     /\ prev.steps # <<>>) =>
        ((name_of(prev.prod) = name_of(prod) /\ source_of(prev.prod) = source_of(prod))
            => steps = prev.steps)

C9_Witness ==
    /\ pc = "derived"
    /\ "steps" \in DOMAIN prev
    /\ prev.steps # <<>>
    /\ name_of(prev.prod) = name_of(prod)
    /\ source_of(prev.prod) = source_of(prod)
    /\ prev.prod.type # prod.type
    /\ prev.prod.product_id # prod.product_id
    /\ prev.prod.description # prod.description
    /\ steps = prev.steps

-----------------------------------------------------------------------------
(* Properties of parse_numeric *)

WhitespaceOnly(t) == \A i \in 1..Len(t) : IsSpace(t[i])

\* C10: a text that is empty, whitespace-only, or contains "не обнаруж" in
\* any letter case, anywhere, parses to NaN.
C10_NotDetectedIsAbsent ==
    (/\ pc = "parsed"
     /\ val.kind = "str"
     /\ (WhitespaceOnly(val.s) \/ Contains(s_marker, Lower(val.s)))) =>
        actual_numeric = NaN

C10_Witness ==
    /\ pc = "parsed"
    /\ val.kind = "str"
    /\ Len(val.s) > 2 /\ val.s[1] = 49 /\ val.s[2] = 50
    /\ Contains(s_marker, Lower(val.s))
    /\ ~Contains(s_marker, val.s)
    /\ actual_numeric = NaN

\* the truncated prefix float() is applied to
CleanedOf(t) == Cleaned(normalized(Strip(t)))

Count(t, c) == Cardinality({i \in 1..Len(t) : t[i] = c})

\* the malformed literals the claim lists: empty, a lone sign, a dangling
\* exponent marker, several decimal points, two signs in a row
MalformedLiteral(c) ==
    \/ c = <<>>
    \/ c \in {<<c_plus>>, <<c_minus>>}
    \/ (c # <<>> /\ c[Len(c)] \in {c_e, c_E})
    \/ Count(c, c_dot) >= 2
    \/ \E i \in 1..(Len(c) - 1) : c[i] \in {c_plus, c_minus} /\ c[i + 1] \in {c_plus, c_minus}

IsFloat(x) == DOMAIN x = {"neg", "dig", "exp"} \/ DOMAIN x = {"inf", "neg"}

\* C11: parse_numeric never raises on a text: the result is NaN or a float,
\* and it is NaN whenever the truncated prefix is a malformed literal.
C11_TotalOnStrings ==
    (pc = "parsed" /\ val.kind = "str") =>
        /\ actual_numeric # ValueError
        /\ actual_numeric = NaN \/ IsFloat(actual_numeric)
        /\ MalformedLiteral(CleanedOf(val.s)) => actual_numeric = NaN

C11_Witness ==
    /\ pc = "parsed"
    /\ val.kind = "str"
    /\ ~Contains(s_marker, Lower(val.s))
    /\ Len(CleanedOf(val.s)) >= 2
    /\ CleanedOf(val.s)[Len(CleanedOf(val.s))] = c_e
    /\ actual_numeric = NaN

t_1_2          == <<49, 46, 50>>                  \* "1.2"
t_1_2_mul10pow6 == t_1_2 \o s_mul10pow \o <<54>>  \* "1.2×10^6"
t_1_2_x10pow6  == t_1_2 \o s_x10pow \o <<54>>     \* "1.2x10^6"
t_2_mul10      == <<50>> \o s_mul10               \* "2×10"
t_2_x10        == <<50>> \o s_x10                 \* "2x10"

\* C12: "1.2×10^6" and "1.2x10^6" parse to 1200000.0, and "2×10" and
\* "2x10" parse to a number, not to NaN.
C12_ExponentIdioms ==
    (pc = "parsed" /\ val.kind = "str") =>
        /\ val.s \in {t_1_2_mul10pow6, t_1_2_x10pow6} =>
              actual_numeric = [neg |-> FALSE, dig |-> <<1, 2>>, exp |-> 5]
        /\ val.s \in {t_2_mul10, t_2_x10} => IsFloat(actual_numeric)

IsAsciiDigit(c) == c >= 48 /\ c <= 57

\* a plain decimal literal: digit groups separated by whitespace, with at
\* most one period or comma, beginning and ending with a digit
PlainDecimal(h) ==
    /\ h # <<>>
    /\ IsAsciiDigit(h[1]) /\ IsAsciiDigit(h[Len(h)])
    /\ \A i \in 1..Len(h) : IsAsciiDigit(h[i]) \/ IsSpace(h[i]) \/ h[i] \in {c_dot, c_comma}
    /\ Count(h, c_dot) + Count(h, c_comma) <= 1

\* its value: the digits without the whitespace, the separator read as the
\* decimal point
PlainDecimalValue(h) ==
    LET seps == {i \in 1..Len(h) : h[i] \in {c_dot, c_comma}}
        frac == IF seps = {} THEN 0
                ELSE Cardinality({i \in 1..Len(h) : IsAsciiDigit(h[i]) /\ \A j \in seps : i > j})
    IN  NormFloat(FALSE, StripLeadingZeros(DigitsOf(SelectSeq(h, IsAsciiDigit))), 0 - frac)

\* a character a numeric literal can begin with; the bare multiplication
\* sign is dropped by the normalization and so never leads the literal
NumericChar(c) == IsDigit(c) \/ c \in {c_dot, c_minus, c_plus, c_e, c_E}
LeadsNothingNumeric(t) == Strip(t) # <<>> /\ ~NumericChar(Strip(t)[1]) /\ Strip(t)[1] # 215

-----------------------------------------------------------------------------
(* Store files: bytes, decoding and pd.read_csv, app.py:44-53 *)

\* a path of DATA_DIR: absent, or a file holding bytes
NoFile == [exists |-> FALSE]
File(b) == [exists |-> TRUE, bytes |-> b]

c_tab   == 9
c_lf    == 10
c_cr    == 13
c_quote == 34
\* the signature the utf-8-sig codec writes and skips
BOM == <<239, 187, 191>>

Decoded(t) == [ok |-> TRUE, text |-> t]
UnicodeDecodeError == [ok |-> FALSE, error |-> "UnicodeDecodeError"]
EmptyDataError == [ok |-> FALSE, error |-> "EmptyDataError"]
ParserError == [ok |-> FALSE, error |-> "ParserError"]

IsCont(x) == x >= 128 /\ x <= 191

\* the strict UTF-8 decoder: bytes from position i on, appended to acc
RECURSIVE Utf8Decode(_, _, _)
Utf8Decode(b, i, acc) ==
    IF i > Len(b) THEN Decoded(acc)
    ELSE LET n  == Len(b)
             c  == b[i]
             b1 == IF i + 1 <= n THEN b[i + 1] ELSE 0
             b2 == IF i + 2 <= n THEN b[i + 2] ELSE 0
             b3 == IF i + 3 <= n THEN b[i + 3] ELSE 0
         IN  IF c < 128 THEN Utf8Decode(b, i + 1, Append(acc, c))
             ELSE IF c >= 194 /\ c <= 223 /\ IsCont(b1)
                  THEN Utf8Decode(b, i + 2, Append(acc, (c - 192) * 64 + (b1 - 128)))
             ELSE IF /\ c >= 224 /\ c <= 239 /\ IsCont(b1) /\ IsCont(b2)
                     /\ (c = 224 => b1 >= 160)
                     /\ (c = 237 => b1 <= 159)
                  THEN Utf8Decode(b, i + 3,
                           Append(acc, (c - 224) * 4096 + (b1 - 128) * 64 + (b2 - 128)))
             ELSE IF /\ c >= 240 /\ c <= 244 /\ IsCont(b1) /\ IsCont(b2) /\ IsCont(b3)
                     /\ (c = 240 => b1 >= 144)
                     /\ (c = 244 => b1 <= 143)
                  THEN Utf8Decode(b, i + 4,
                           Append(acc, (c - 240) * 262144 + (b1 - 128) * 4096
                                       + (b2 - 128) * 64 + (b3 - 128)))
             ELSE UnicodeDecodeError

\* the strict UTF-8 decoder on all of b.  A long b is cut at the first byte
\* after its middle that is not a continuation byte, where a character
\* starts if b is well formed, and the two parts are decoded on their own;
\* a part that ends inside a character is rejected as the whole would be.
RECURSIVE Utf8DecodeAll(_)
Utf8DecodeAll(b) ==
    IF Len(b) <= 16 THEN Utf8Decode(b, 1, <<>>)
    ELSE LET starts == {i \in (Len(b) \div 2 + 1)..Len(b) : ~IsCont(b[i])}
         IN  IF starts = {} THEN UnicodeDecodeError
             ELSE LET m == CHOOSE i \in starts : \A j \in starts : i <= j
                      l == Utf8DecodeAll(SubSeq(b, 1, m - 1))
                      r == Utf8DecodeAll(SubSeq(b, m, Len(b)))
                  IN  IF l.ok /\ r.ok THEN Decoded(l.text \o r.text) ELSE UnicodeDecodeError

\* bytes.decode(encoding) for the two encodings of safe_read_csv, without
\* the signature, which read_csv has taken off the head of the file
Decode(b, encoding) ==
    IF encoding = "latin1" THEN Decoded(b) ELSE Utf8DecodeAll(b)

\* the bytes read_csv tokenizes: under utf-8-sig the signature is skipped
Body(b, encoding) ==
    IF encoding # "latin1" /\ Len(b) >= 3 /\ SubSeq(b, 1, 3) = BOM THEN Drop(b, 3) ELSE b

\* the first position at or after i that holds a member of stop, Len(t) + 1 if none
RunEnd(t, i, stop) ==
    CHOOSE j \in i..(Len(t) + 1) :
        /\ j = Len(t) + 1 \/ t[j] \in stop
        /\ \A k \in i..(j - 1) : t[k] \notin stop

\* the position of the line terminator at or after i
EndOfLine(t, i) == RunEnd(t, i, {c_lf, c_cr})
\* the rest of the line from i holds only spaces and tabs
BlankLine(t, i) == \A j \in i..(EndOfLine(t, i) - 1) : t[j] \in {c_space, c_tab}
\* the end of the run of ordinary characters of an unquoted field
EndOfField(t, i) == RunEnd(t, i, {c_comma, c_lf, c_cr})

\* the outcome of the tokenizer on one line: the fields of the line, or no
\* line for a blank one, and the position after its terminator
Line(line, next) == [ok |-> TRUE, blank |-> FALSE, line |-> line, next |-> next]
Blank(next) == [ok |-> TRUE, blank |-> TRUE, line |-> <<>>, next |-> next]
Unterminated == [ok |-> FALSE, blank |-> FALSE, line |-> <<>>, next |-> 0]

\* the tokenizer of the C parser (delimiter ',', quotechar '"', doublequote,
\* skip_blank_lines) from the start of a line to its end.  The delimiters
\* are ASCII, so the fields are cut in the encoded bytes.
RECURSIVE TokenizeLine(_, _, _, _, _)
TokenizeLine(t, i, st, fld, line) ==
    IF i > Len(t) THEN
        IF st \in {"START_RECORD", "EAT_CRNL_NOP"} THEN Blank(i)
        ELSE IF st = "IN_QUOTED_FIELD" THEN Unterminated
        ELSE IF st = "EAT_CRNL" THEN Line(line, i)
        ELSE Line(Append(line, fld), i)
    ELSE LET c == t[i] IN
        CASE st = "START_RECORD" ->
                IF c = c_lf THEN Blank(i + 1)
                ELSE IF c = c_cr THEN TokenizeLine(t, i + 1, "EAT_CRNL_NOP", <<>>, <<>>)
                ELSE IF c \in {c_space, c_tab} /\ BlankLine(t, i) THEN Blank(EndOfLine(t, i))
                ELSE TokenizeLine(t, i, "START_FIELD", <<>>, <<>>)
          [] st \in {"START_FIELD", "IN_FIELD"} ->
                IF c = c_lf THEN Line(Append(line, fld), i + 1)
                ELSE IF c = c_cr THEN TokenizeLine(t, i + 1, "EAT_CRNL", <<>>, Append(line, fld))
                ELSE IF c = c_quote /\ st = "START_FIELD"
                     THEN TokenizeLine(t, i + 1, "IN_QUOTED_FIELD", fld, line)
                ELSE IF c = c_comma THEN TokenizeLine(t, i + 1, "START_FIELD", <<>>, Append(line, fld))
                ELSE TokenizeLine(t, EndOfField(t, i + 1), "IN_FIELD",
                                  fld \o SubSeq(t, i, EndOfField(t, i + 1) - 1), line)
          [] st = "IN_QUOTED_FIELD" ->
                LET j == RunEnd(t, i, {c_quote})
                IN  IF j > Len(t) THEN Unterminated
                    ELSE TokenizeLine(t, j + 1, "QUOTE_IN_QUOTED_FIELD",
                                      fld \o SubSeq(t, i, j - 1), line)
          [] st = "QUOTE_IN_QUOTED_FIELD" ->
                IF c = c_quote THEN TokenizeLine(t, i + 1, "IN_QUOTED_FIELD", Append(fld, c), line)
                ELSE IF c = c_comma THEN TokenizeLine(t, i + 1, "START_FIELD", <<>>, Append(line, fld))
                ELSE IF c = c_lf THEN Line(Append(line, fld), i + 1)
                ELSE IF c = c_cr THEN TokenizeLine(t, i + 1, "EAT_CRNL", <<>>, Append(line, fld))
                ELSE TokenizeLine(t, i + 1, "IN_FIELD", Append(fld, c), line)
          [] st = "EAT_CRNL" ->
                IF c = c_lf THEN Line(line, i + 1) ELSE Line(line, i)
          [] st = "EAT_CRNL_NOP" ->
                IF c = c_lf THEN Blank(i + 1) ELSE Blank(i)

\* the lines of the file from position i on, appended to lines
RECURSIVE Tokenize(_, _, _)
Tokenize(t, i, lines) ==
    IF i > Len(t) THEN [ok |-> TRUE, lines |-> lines]
    ELSE LET r == TokenizeLine(t, i, "START_RECORD", <<>>, <<>>)
         IN  IF ~r.ok THEN [ok |-> FALSE, lines |-> <<>>]
             ELSE Tokenize(t, r.next, IF r.blank THEN lines ELSE Append(lines, r.line))

\* str(n) for a natural number
DecimalText(n) == IF n = 0 THEN <<48>> ELSE [i \in 1..Len(DigitsOfNat(n)) |-> DigitsOfNat(n)[i] + 48]

s_Unnamed == <<85, 110, 110, 97, 109, 101, 100, 58, 32>>     \* "Unnamed: "

\* the column labels read_csv makes of a header line: an empty name becomes
\* "Unnamed: i", a repeated name gets the suffix ".k"
ColumnLabels(h) ==
    [i \in 1..Len(h) |->
        IF h[i] = <<>> THEN s_Unnamed \o DecimalText(i - 1)
        ELSE LET k == Cardinality({j \in 1..(i - 1) : h[j] = h[i]})
             IN  IF k = 0 THEN h[i] ELSE h[i] \o <<c_dot>> \o DecimalText(k)]

\* the field texts read_csv reads as a missing value (default na_values)
NaValues ==
    { <<>>, <<35, 78, 47, 65>>, <<35, 78, 47, 65, 32, 78, 47, 65>>, <<35, 78, 65>>, <<45, 49, 46, 35, 73, 78, 68>>, <<45, 49, 46, 35, 81, 78, 65, 78>>, <<45, 78, 97, 78>>, <<45, 110, 97, 110>>,
      <<49, 46, 35, 73, 78, 68>>, <<49, 46, 35, 81, 78, 65, 78>>, <<60, 78, 65, 62>>, <<78, 47, 65>>, <<78, 65>>, <<78, 85, 76, 76>>, <<78, 97, 78>>, <<78, 111, 110, 101>>,
      <<110, 47, 97>>, <<110, 97, 110>>, <<110, 117, 108, 108>> }

\* the cell of a field: the field's text, or the missing value
CellOf(fld) == IF fld \in NaValues THEN [kind |-> "na"] ELSE [kind |-> "str", s |-> fld]

Max(a, b) == IF a >= b THEN a ELSE b

Frame(d) == [ok |-> TRUE, df |-> d]

\* the decoded fields of the lines
DecodeLines(lines, encoding) ==
    [k \in 1..Len(lines) |-> [j \in 1..Len(lines[k]) |-> Decode(lines[k][j], encoding)]]

\* the table of the decoded lines of a file: the first line is the header;
\* the width is that of the longer of the header and the first data line,
\* whose surplus leading fields become the index; a later line with more
\* fields is an error, a shorter one is padded
Table(txt) ==
    LET h == [j \in 1..Len(txt[1]) |-> txt[1][j].text]
        n == Len(txt)
        width == IF n >= 2 THEN Max(Len(h), Len(txt[2])) ELSE Len(h)
        lead == width - Len(h)
    IN  IF \E k \in 3..n : Len(txt[k]) > width THEN ParserError
        ELSE Frame([columns |-> ColumnLabels(h),
                    rows |-> [r \in 1..(n - 1) |->
                        [j \in 1..Len(h) |->
                            IF lead + j <= Len(txt[r + 1])
                            THEN CellOf(txt[r + 1][lead + j].text)
                            ELSE [kind |-> "na"]]]])

\* the outcome of the read for the tokenized lines tk and their decoded
\* fields txt
Parsed(tk, txt, b, encoding) ==
    IF tk.ok /\ \E k \in 1..Len(txt) : \E j \in 1..Len(txt[k]) : ~txt[k][j].ok
    THEN UnicodeDecodeError
    ELSE IF ~tk.ok /\ ~Decode(Body(b, encoding), encoding).ok THEN UnicodeDecodeError
    ELSE IF ~tk.ok THEN ParserError
    ELSE IF tk.lines = <<>> THEN EmptyDataError
    ELSE Table(txt)

Tokenized(tk, b, encoding) ==
    Parsed(tk, IF tk.ok THEN DecodeLines(tk.lines, encoding) ELSE <<>>, b, encoding)

\* pd.read_csv(path, encoding=encoding) on the bytes of an existing file
read_csv(b, encoding) == Tokenized(Tokenize(Body(b, encoding), 1, <<>>), b, encoding)

\* DataFrame.empty
empty(d) == Len(d.columns) = 0 \/ Len(d.rows) = 0

\* app.py:51-52: the column names of a table that is not empty are stripped
strip_columns(r) ==
    IF ~r.ok THEN r
    ELSE IF empty(r.df) THEN r
    ELSE Frame([r.df EXCEPT !.columns = [i \in 1..Len(r.df.columns) |-> Strip(r.df.columns[i])]])

\* app.py:49-50: a read that raised is made again under latin1
fallback(r1, f) == IF r1.ok THEN r1 ELSE read_csv(f.bytes, "latin1")

\* a read that raised gives an empty table
or_empty(r1) == IF r1.ok THEN r1 ELSE Frame(EmptyFrame)

\* variant: a failed read is not retried under latin1 and gives an empty table
safe_read_csv_no_fallback(f) ==
    IF ~f.exists THEN Frame(EmptyFrame)
    ELSE strip_columns(or_empty(read_csv(f.bytes, "utf-8-sig")))

\* app.py:44-53
safe_read_csv(f) ==
    IF ~f.exists THEN Frame(EmptyFrame)
    ELSE strip_columns(fallback(read_csv(f.bytes, "utf-8-sig"), f))

-----------------------------------------------------------------------------
(* Column normalization and identifier coercion, app.py:161-210 *)

s_sample_id     == <<115, 97, 109, 112, 108, 101, 95, 105, 100>>        \* "sample_id"
s_product_id    == <<112, 114, 111, 100, 117, 99, 116, 95, 105, 100>>       \* "product_id"
s_reg_number    == <<114, 101, 103, 95, 110, 117, 109, 98, 101, 114>>       \* "reg_number"
s_date_received == <<100, 97, 116, 101, 95, 114, 101, 99, 101, 105, 118, 101, 100>>    \* "date_received"
s_storage_days  == <<115, 116, 111, 114, 97, 103, 101, 95, 100, 97, 121, 115>>     \* "storage_days"
s_conditions    == <<99, 111, 110, 100, 105, 116, 105, 111, 110, 115>>       \* "conditions"
s_notes         == <<110, 111, 116, 101, 115>>            \* "notes"
s_id            == <<105, 100>>               \* "id"
s_product       == <<112, 114, 111, 100, 117, 99, 116>>          \* "product"
s_date          == <<100, 97, 116, 101>>             \* "date"
s_duration_days == <<100, 117, 114, 97, 116, 105, 111, 110, 95, 100, 97, 121, 115>>    \* "duration_days"

HasColumn(d, name) == \E i \in 1..Len(d.columns) : d.columns[i] = name

\* variant: the column name is compared with the alias without lower-casing
ensure_col_case_sensitive(d, candidates, new_name) ==
    IF empty(d) THEN [df |-> d, found |-> FALSE]
    ELSE LET hits == {i \in 1..Len(d.columns) :
                        \E k \in 1..Len(candidates) :
                            Strip(d.columns[i]) = Strip(candidates[k])}
         IN  IF hits = {} THEN [df |-> d, found |-> FALSE]
             ELSE LET col == d.columns[CHOOSE i \in hits : \A j \in hits : i <= j]
                  IN  [df |-> [d EXCEPT !.columns =
                                  [j \in 1..Len(d.columns) |->
                                      IF d.columns[j] = col THEN new_name ELSE d.columns[j]]],
                       found |-> TRUE]

\* app.py:161-168: the first column, in column order, whose stripped and
\* lower-cased name equals that of a candidate is renamed to new_name;
\* `found` stands for the second component (new_name or None)
ensure_col(d, candidates, new_name) ==
    IF empty(d) THEN [df |-> d, found |-> FALSE]
    ELSE LET cands == {Lower(Strip(candidates[k])) : k \in 1..Len(candidates)}
             hits == {i \in 1..Len(d.columns) : Lower(Strip(d.columns[i])) \in cands}
         IN  IF hits = {} THEN [df |-> d, found |-> FALSE]
             ELSE LET col == d.columns[CHOOSE i \in hits : \A j \in hits : i <= j]
                  IN  [df |-> [d EXCEPT !.columns =
                                  [j \in 1..Len(d.columns) |->
                                      IF d.columns[j] = col THEN new_name ELSE d.columns[j]]],
                       found |-> TRUE]

\* app.py:177-184: the ensure_col calls on the samples table, in order
samples_calls ==
    << [candidates |-> <<s_sample_id, s_id>>, new_name |-> s_sample_id],
       [candidates |-> <<s_product_id, s_product>>, new_name |-> s_product_id],
       [candidates |-> <<s_reg_number>>, new_name |-> s_reg_number],
       [candidates |-> <<s_date_received, s_date>>, new_name |-> s_date_received],
       [candidates |-> <<s_storage_days, s_duration_days>>, new_name |-> s_storage_days],
       [candidates |-> <<s_conditions>>, new_name |-> s_conditions],
       [candidates |-> <<s_notes>>, new_name |-> s_notes] >>

\* the calls from the k-th on, each applied to the result of the one before
RECURSIVE normalize(_, _, _)
normalize(d, calls, k) ==
    IF k > Len(calls) THEN d
    ELSE normalize(ensure_col(d, calls[k].candidates, calls[k].new_name).df, calls, k + 1)

\* pd.to_numeric(cell, errors='coerce') for one cell
to_numeric(cell) ==
    IF cell.kind = "na" THEN NaN
    ELSE IF cell.kind = "num" THEN FloatOfInt(cell.n)
    ELSE LET f == PyFloat(cell.s) IN IF f = ValueError THEN NaN ELSE f

\* a float with an integer value
IsIntegral(f) == DOMAIN f = {"neg", "dig", "exp"} /\ f.exp >= 0

RECURSIVE Pow10(_)
Pow10(n) == IF n = 0 THEN 1 ELSE 10 * Pow10(n - 1)

IntOfFloat(f) == (IF f.neg THEN -1 ELSE 1) * IntOf(f.dig) * Pow10(f.exp)

TypeError == [ok |-> FALSE, error |-> "TypeError"]

\* astype("Int64") of the numbers num of column c: a float that is not an
\* integer is rejected
astype_Int64(d, c, num) ==
    IF \E r \in 1..Len(d.rows) : num[r] # NaN /\ ~IsIntegral(num[r]) THEN TypeError
    ELSE Frame([d EXCEPT !.rows =
                   [r \in 1..Len(d.rows) |->
                       [d.rows[r] EXCEPT ![c] =
                           IF num[r] = NaN THEN [kind |-> "na"]
                           ELSE [kind |-> "num", n |-> IntOfFloat(num[r])]]]])

\* app.py:201-204: a column labelled col is replaced by its nullable-integer
\* form; selecting a label carried by two columns gives a DataFrame, which
\* to_numeric rejects
to_intlike(d, col) ==
    LET at == {i \in 1..Len(d.columns) : d.columns[i] = col}
    IN  IF at = {} THEN Frame(d)
        ELSE IF Cardinality(at) > 1 THEN TypeError
        ELSE astype_Int64(d, CHOOSE i \in at : TRUE,
                          [r \in 1..Len(d.rows) |-> to_numeric(d.rows[r][CHOOSE i \in at : TRUE])])

\* a coercion after one that went through
then_intlike(r1, col) == IF r1.ok THEN to_intlike(r1.df, col) ELSE r1

RECURSIVE Utf8Encode(_)
\* str.encode('utf-8')
Utf8Encode(t) ==
    IF t = <<>> THEN <<>>
    ELSE IF Len(t) = 1
    THEN LET c == t[1]
         IN  IF c < 128 THEN <<c>>
             ELSE IF c < 2048 THEN <<192 + (c \div 64), 128 + (c % 64)>>
             ELSE IF c < 65536
                  THEN <<224 + (c \div 4096), 128 + ((c \div 64) % 64), 128 + (c % 64)>>
             ELSE <<240 + (c \div 262144), 128 + ((c \div 4096) % 64),
                    128 + ((c \div 64) % 64), 128 + (c % 64)>>
    ELSE Utf8Encode(SubSeq(t, 1, Len(t) \div 2)) \o Utf8Encode(SubSeq(t, Len(t) \div 2 + 1, Len(t)))

\* number of data lines of a Samples file
MaxRows == 2

\* header lines of a Samples file
HeaderLines ==
    { <<115, 97, 109, 112, 108, 101, 95, 105, 100, 44, 112, 114, 111, 100, 117, 99, 116, 95, 105, 100>>,       \* "sample_id,product_id"
      <<32, 83, 97, 109, 112, 108, 101, 95, 73, 68, 32, 44, 80, 114, 111, 100, 117, 99, 116>>,        \* " Sample_ID ,Product"
      <<73, 68, 44, 80, 82, 79, 68, 85, 67, 84, 95, 73, 68>>,              \* "ID,PRODUCT_ID"
      <<115, 105, 100, 44, 112, 105, 100>>,                    \* "sid,pid"
      <<105, 100, 44, 115, 97, 109, 112, 108, 101, 95, 105, 100>> }              \* "id,sample_id"

\* fields of the identifier column
IdFields ==
    { <<49>>, <<49, 50>>, <<55, 46, 48>>, <<49, 46, 53>>, <<97, 98, 99>>, <<>> }    \* "1" "12" "7.0" "1.5" "abc" ""

\* data lines, each with its line terminator
RowLines == {a \o <<c_comma>> \o b \o <<c_lf>> : a \in IdFields, b \in {<<53>>, <<120>>}}

CsvTexts == {h \o <<c_lf>> \o b : h \in HeaderLines, b \in Concats(RowLines, MaxRows)}

\* files of other shapes: zero bytes, only the signature, only blank lines,
\* a Latin-1 file, a file with a line longer than the ones before, the same
\* in Latin-1, a file without a final line terminator, CRLF terminators, a
\* quoted field, a file written with the signature
OddFiles ==
    { File(<<>>),
      File(BOM),
      File(<<10, 10>>),
      File(<<115, 97, 109, 112, 108, 101, 95, 105, 100, 44, 110, 111, 116, 101, 115, 10, 49, 44, 99, 97, 102>> \o <<233, 10>>),
      File(<<115, 97, 109, 112, 108, 101, 95, 105, 100, 44, 112, 114, 111, 100, 117, 99, 116, 95, 105, 100, 10, 49, 44, 53, 10, 50, 44, 53, 44, 57, 10>>),
      File(<<115, 97, 109, 112, 108, 101, 95, 105, 100, 44, 110, 111, 116, 101, 115, 10, 49, 44, 99, 97, 102>> \o <<233, 10>> \o <<50, 44, 53, 44, 57, 10>>),
      File(<<115, 97, 109, 112, 108, 101, 95, 105, 100, 44, 112, 114, 111, 100, 117, 99, 116, 95, 105, 100, 10, 49, 44, 53>>),
      File(<<83, 97, 109, 112, 108, 101, 95, 73, 68, 44, 112, 114, 111, 100, 117, 99, 116, 95, 105, 100, 13, 10, 51, 44, 53, 13, 10>>),
      File(<<115, 97, 109, 112, 108, 101, 95, 105, 100, 44, 110, 111, 116, 101, 115, 10, 49, 44, 34, 97, 44, 98, 34, 10>>),
      File(BOM \o <<115, 97, 109, 112, 108, 101, 95, 105, 100, 44, 112, 114, 111, 100, 117, 99, 116, 95, 105, 100, 10, 52, 44, 53, 10>>) }

SampleFiles == {NoFile} \cup {File(Utf8Encode(t)) : t \in CsvTexts} \cup OddFiles

\* a step of the load with result r: the table it gives, or the exception
\* that ends the run
Outcome(r, op, passed) ==
    /\ df' = IF r.ok THEN r.df ELSE df
    /\ pc' = IF r.ok THEN passed ELSE "raised"
    /\ last' = IF r.ok THEN [op |-> op, ok |-> TRUE]
                ELSE [op |-> op, ok |-> FALSE, error |-> r.error]

\* app.py:151: samples = safe_read_csv(SAMPLES_CSV)
LoadStore ==
    /\ pc = "file"
    /\ Outcome(safe_read_csv(stores.samples), "safe_read_csv", "loaded")
    /\ UNCHANGED <<stores, cache>>
    /\ UNCHANGED <<clock, norms, prod, steps, selected_step, shown_norm, prev, val, actual_numeric>>

\* app.py:177-184: the samples columns are normalized
NormalizeColumns ==
    /\ pc = "loaded"
    /\ df' = normalize(df, samples_calls, 1)
    /\ pc' = "normalized"
    /\ last' = [op |-> "ensure_col", ok |-> TRUE]
    /\ UNCHANGED <<stores, cache>>
    /\ UNCHANGED <<clock, norms, prod, steps, selected_step, shown_norm, prev, val, actual_numeric>>

\* app.py:207-208: samples = to_intlike(samples, "sample_id"), then "product_id"
CoerceIds ==
    /\ pc = "normalized"
    /\ Outcome(then_intlike(to_intlike(df, s_sample_id), s_product_id), "to_intlike", "coerced")
    /\ UNCHANGED <<stores, cache>>
    /\ UNCHANGED <<clock, norms, prod, steps, selected_step, shown_norm, prev, val, actual_numeric>>

\* the load of the Samples store over all bounded files
InitLoad ==
    /\ norms = default_norms
    /\ prod = [product_id |-> 5, name |-> name_ayran, type |-> "-", source |-> src_cow, description |-> ""]
    /\ steps = <<>>
    /\ selected_step = None
    /\ shown_norm = NoNorm
    /\ prev = NoPrev
    /\ val = [kind |-> "na"]
    /\ actual_numeric = NaN
    /\ stores \in {[samples |-> f] : f \in SampleFiles}
    /\ cache = NoCache
    /\ df = EmptyFrame
    /\ last = NoOp
    /\ clock = 0
    /\ pc = "file"

NextLoad ==
    \/ LoadStore
    \/ NormalizeColumns
    \/ CoerceIds

SpecLoad == InitLoad /\ [][NextLoad]_vars

-----------------------------------------------------------------------------
(* Properties of the load *)

\* the two identifier columns of the samples table
IdColumns == {s_sample_id, s_product_id}

\* C14: identifier coercion never raises; a cell that parses as an integer
\* keeps its value and every other cell (text, empty, missing, a non-integer
\* number) becomes the no-value marker.
C14_CoerceIdentifiers ==
    [][(pc = "normalized" /\ pc' # "normalized") =>
          /\ pc' = "coerced"
          /\ \A c \in 1..Len(df.columns) : \A r \in 1..Len(df.rows) :
                df.columns[c] \in IdColumns =>
                    df'.rows[r][c] =
                        IF IsIntegral(to_numeric(df.rows[r][c]))
                        THEN [kind |-> "num", n |-> IntOfFloat(to_numeric(df.rows[r][c]))]
                        ELSE [kind |-> "na"]]_vars

\* col is a casing/whitespace variant of alias
IsVariant(col, alias) == Lower(Strip(col)) = Lower(Strip(alias))
HasAlias(d, call) ==
    \E i \in 1..Len(d.columns) : \E k \in 1..Len(call.candidates) :
        IsVariant(d.columns[i], call.candidates[k])

Reverse(s) == [i \in 1..Len(s) |-> s[Len(s) + 1 - i]]
\* the same calls with every alias list in the opposite order
reversed_calls ==
    [k \in 1..Len(samples_calls) |->
        [candidates |-> Reverse(samples_calls[k].candidates),
         new_name |-> samples_calls[k].new_name]]

\* C15 (as stated): for every table, one with a header and no rows included,
\* the canonical column is present after normalization exactly when some
\* column is a casing/whitespace variant of one of its aliases, and the
\* result does not depend on the order of the alias lists.
C15_Original ==
    [][(pc = "loaded" /\ pc' = "normalized") =>
          /\ \A k \in 1..Len(samples_calls) :
                HasAlias(df, samples_calls[k]) <=> HasColumn(df', samples_calls[k].new_name)
          /\ df' = normalize(df, reversed_calls, 1)]_vars

\* C15 (amended): the same for every table with at least one row; a table
\* without rows is returned as it is.
C15_Amended ==
    [][(pc = "loaded" /\ pc' = "normalized") =>
          /\ ~empty(df) =>
                \A k \in 1..Len(samples_calls) :
                    HasAlias(df, samples_calls[k]) <=> HasColumn(df', samples_calls[k].new_name)
          /\ empty(df) => df' = df
          /\ df' = normalize(df, reversed_calls, 1)]_vars

\* the file " Sample_ID ,Product" with one row, normalized
C15_Witness ==
    /\ pc = "normalized"
    /\ stores.samples = File(<<32, 83, 97, 109, 112, 108, 101, 95, 73, 68, 32, 44, 80, 114, 111, 100, 117, 99, 116, 10, 49, 44, 53, 10>>)
    /\ df.columns = <<s_sample_id, s_product_id>>
    /\ Len(df.rows) = 1

\* s.split(sep)
RECURSIVE SplitOn(_, _)
SplitOn(s, sep) ==
    IF \A i \in 1..Len(s) : s[i] # sep THEN <<s>>
    ELSE <<BeforeFirst(s, sep)>> \o SplitOn(Drop(s, Len(BeforeFirst(s, sep)) + 1), sep)

\* a file of at least three lines, without quotes, one of whose later lines
\* has more fields than the first two
Ragged(b) ==
    LET ls == SplitOn(b, c_lf)
    IN  /\ Len(ls) >= 3
        /\ \A i \in 1..Len(b) : b[i] # c_quote
        /\ \E k \in 3..Len(ls) :
              /\ Count(ls[k], c_comma) > Count(ls[1], c_comma)
              /\ Count(ls[k], c_comma) > Count(ls[2], c_comma)

\* the table safe_read_csv returns for the table t that read_csv gave
Returned(t) ==
    IF empty(t) THEN t ELSE [t EXCEPT !.columns = [i \in 1..Len(t.columns) |-> Strip(t.columns[i])]]

\* C16: a resource that does not exist loads as the empty table; a resource
\* whose read fails under utf-8-sig is read again under latin1 and the
\* outcome of that read is the outcome of the load; a resource of zero
\* bytes, or one with a line too long, makes the load raise.
C16_LoadOutcomes ==
    last.op = "safe_read_csv" =>
        LET f == stores.samples
        IN  /\ ~f.exists => (pc = "loaded" /\ df = EmptyFrame)
            /\ (f.exists /\ ~read_csv(f.bytes, "utf-8-sig").ok) =>
                  LET r == read_csv(f.bytes, "latin1")
                  IN  IF r.ok THEN pc = "loaded" /\ df = Returned(r.df)
                      ELSE pc = "raised" /\ last.error = r.error
            /\ (f.exists /\ f.bytes = <<>>) => (pc = "raised" /\ last.error = "EmptyDataError")
            /\ (f.exists /\ Ragged(f.bytes)) => (pc = "raised" /\ last.error = "ParserError")

\* the Latin-1 file was read under the fallback encoding
C16_Witness ==
    /\ last.op = "safe_read_csv"
    /\ pc = "loaded"
    /\ stores.samples = File(<<115, 97, 109, 112, 108, 101, 95, 105, 100, 44, 110, 111, 116, 101, 115, 10, 49, 44, 99, 97, 102>> \o <<233, 10>>)
    /\ df.columns = <<s_sample_id, s_notes>>
    /\ df.rows = << <<[kind |-> "str", s |-> <<49>>], [kind |-> "str", s |-> <<99, 97, 102, 233>>]>> >>

-----------------------------------------------------------------------------
(* Writing a store: DataFrame.to_csv and append_row_csv, app.py:55-63 *)

\* csv.QUOTE_MINIMAL: a field holding the delimiter, the quote character or
\* a line terminator is written in quotes, with its quotes doubled
CsvField(fld) ==
    IF \E i \in 1..Len(fld) : fld[i] \in {c_comma, c_quote, c_lf, c_cr}
    THEN <<c_quote>> \o Replace(fld, <<c_quote>>, <<c_quote, c_quote>>) \o <<c_quote>>
    ELSE fld

\* the bytes of one line of the file: the encoded fields, commas, "\n"
RECURSIVE CsvLine(_)
CsvLine(fields) ==
    IF fields = <<>> THEN <<c_lf>>
    ELSE Utf8Encode(CsvField(Head(fields)))
            \o (IF Len(fields) > 1 THEN <<c_comma>> ELSE <<>>) \o CsvLine(Tail(fields))

RECURSIVE CsvLines(_)
CsvLines(rows) == IF rows = <<>> THEN <<>> ELSE CsvLine(Head(rows)) \o CsvLines(Tail(rows))

\* df.to_csv(path, index=False, encoding="utf-8-sig"): a new file
to_csv(columns, rows) == File(BOM \o CsvLine(columns) \o CsvLines(rows))

\* df.to_csv(path, mode='a', index=False, header=write_header,
\* encoding='utf-8-sig'): the lines are put after the bytes of the file; the
\* codec writes its signature only at position 0
to_csv_append(f, columns, rows, write_header) ==
    LET old == IF f.exists THEN f.bytes ELSE <<>>
    IN  File(old \o (IF old = <<>> THEN BOM ELSE <<>>)
                 \o (IF write_header THEN CsvLine(columns) ELSE <<>>)
                 \o CsvLines(rows))

\* variant: the file is opened for writing, not for appending
append_row_csv_overwrite(f, row, cols_order) ==
    to_csv(cols_order,
           << [k \in 1..Len(cols_order) |->
                 IF cols_order[k] \in DOMAIN row THEN row[cols_order[k]] ELSE <<>>] >>)

\* app.py:55-63; row maps column names to the texts to_csv writes for the values
append_row_csv(f, row, cols_order) ==
    to_csv_append(f, cols_order,
                  << [k \in 1..Len(cols_order) |->
                        IF cols_order[k] \in DOMAIN row THEN row[cols_order[k]] ELSE <<>>] >>,
                  ~f.exists \/ Len(f.bytes) = 0)

\* app.py:799: the cols_order of the save_sample handler
samples_cols ==
    <<s_sample_id, s_product_id, s_reg_number, s_date_received, s_storage_days,
      s_conditions, s_notes>>

\* datetime.now().strftime("%Y-%m-%d") of the day of the session
d_today == <<50, 48, 50, 54, 45, 49, 49, 45, 48, 50>>      \* "2026-11-02"
s_demo  == <<1076, 1077, 1084, 1086>>            \* "демо"

\* app.py:789-797: the row of the save_sample handler
sample_row(new_sid, pid, reg_number, date_received, storage_days, temp_input, humidity, notes) ==
    (s_sample_id :> DecimalText(new_sid)) @@ (s_product_id :> DecimalText(pid))
    @@ (s_reg_number :> reg_number) @@ (s_date_received :> date_received)
    @@ (s_storage_days :> DecimalText(storage_days))
    @@ (s_conditions :> temp_input \o <<176, 67, 44, 32>> \o DecimalText(humidity) \o <<37>>)
    @@ (s_notes :> notes)

\* app.py:123-127: the demo Samples file
demo_samples ==
    to_csv(samples_cols,
           << <<<<49>>, <<53>>, <<65, 45, 48, 48, 49>>, d_today, <<48>>, <<50, 49, 176, 67, 44, 32, 54, 52, 37>>, s_demo>> >>)

\* the Samples store before an append: absent, zero bytes, only a header, the
\* demo file, and files put in place by an upload: canonical columns, alias
\* columns, no final line terminator, fewer columns, columns in another
\* order, a header without line terminator
PriorSamples ==
    { NoFile,
      File(<<>>),
      to_csv(samples_cols, <<>>),
      demo_samples,
      File(<<115, 97, 109, 112, 108, 101, 95, 105, 100, 44, 112, 114, 111, 100, 117, 99, 116, 95, 105, 100, 44, 114, 101, 103, 95, 110, 117, 109, 98, 101, 114, 44, 100, 97, 116, 101, 95, 114, 101, 99, 101, 105, 118, 101, 100, 44, 115, 116, 111, 114, 97, 103, 101, 95, 100, 97, 121, 115, 44, 99, 111, 110, 100, 105, 116, 105, 111, 110, 115, 44, 110, 111, 116, 101, 115, 10, 51, 44, 53, 44, 65, 45, 48, 48, 51, 44, 50, 48, 50, 54, 45, 49, 48, 45, 51, 48, 44, 50, 44, 34, 50, 48, 194, 176, 67, 44, 32, 54, 48, 37, 34, 44, 111, 107, 10, 52, 44, 53, 44, 65, 45, 48, 48, 52, 44, 50, 48, 50, 54, 45, 49, 48, 45, 51, 49, 44, 48, 44, 34, 50, 49, 194, 176, 67, 44, 32, 54, 52, 37, 34, 44, 10>>),
      File(<<73, 68, 44, 80, 114, 111, 100, 117, 99, 116, 44, 114, 101, 103, 95, 110, 117, 109, 98, 101, 114, 44, 100, 97, 116, 101, 44, 100, 117, 114, 97, 116, 105, 111, 110, 95, 100, 97, 121, 115, 44, 99, 111, 110, 100, 105, 116, 105, 111, 110, 115, 44, 110, 111, 116, 101, 115, 10, 51, 44, 53, 44, 65, 45, 48, 48, 51, 44, 50, 48, 50, 54, 45, 49, 48, 45, 51, 48, 44, 50, 44, 34, 50, 48, 194, 176, 67, 44, 32, 54, 48, 37, 34, 44, 111, 107, 10>>),
      File(<<115, 97, 109, 112, 108, 101, 95, 105, 100, 44, 112, 114, 111, 100, 117, 99, 116, 95, 105, 100, 44, 114, 101, 103, 95, 110, 117, 109, 98, 101, 114, 44, 100, 97, 116, 101, 95, 114, 101, 99, 101, 105, 118, 101, 100, 44, 115, 116, 111, 114, 97, 103, 101, 95, 100, 97, 121, 115, 44, 99, 111, 110, 100, 105, 116, 105, 111, 110, 115, 44, 110, 111, 116, 101, 115, 10, 51, 44, 53, 44, 65, 45, 48, 48, 51, 44, 50, 48, 50, 54, 45, 49, 48, 45, 51, 48, 44, 50, 44, 34, 50, 48, 194, 176, 67, 44, 32, 54, 48, 37, 34, 44, 111, 107>>),
      File(<<115, 97, 109, 112, 108, 101, 95, 105, 100, 44, 112, 114, 111, 100, 117, 99, 116, 95, 105, 100, 44, 114, 101, 103, 95, 110, 117, 109, 98, 101, 114, 44, 100, 97, 116, 101, 95, 114, 101, 99, 101, 105, 118, 101, 100, 44, 115, 116, 111, 114, 97, 103, 101, 95, 100, 97, 121, 115, 44, 99, 111, 110, 100, 105, 116, 105, 111, 110, 115, 44, 110, 111, 116, 101, 115, 10, 51, 44, 53, 44, 65, 45, 48, 48, 51, 44, 50, 48, 50, 54, 45, 49, 48, 45, 51, 48, 44, 50, 44, 34, 50, 48, 194, 176, 67, 44, 32, 54, 48, 37, 34, 44, 111, 107, 10, 52, 44, 53, 44, 65, 45, 48, 48, 52, 44, 50, 48, 50, 54, 45, 49, 48, 45, 51, 49, 44, 48, 44, 34, 50, 49, 194, 176, 67, 44, 32, 54, 52, 37, 34, 44, 120>>),
      File(<<115, 97, 109, 112, 108, 101, 95, 105, 100, 44, 112, 114, 111, 100, 117, 99, 116, 95, 105, 100, 10, 51, 44, 53, 10, 52, 44, 53, 10>>),
      File(<<112, 114, 111, 100, 117, 99, 116, 95, 105, 100, 44, 115, 97, 109, 112, 108, 101, 95, 105, 100, 44, 114, 101, 103, 95, 110, 117, 109, 98, 101, 114, 44, 100, 97, 116, 101, 95, 114, 101, 99, 101, 105, 118, 101, 100, 44, 115, 116, 111, 114, 97, 103, 101, 95, 100, 97, 121, 115, 44, 99, 111, 110, 100, 105, 116, 105, 111, 110, 115, 44, 110, 111, 116, 101, 115, 10, 53, 44, 51, 44, 65, 45, 48, 48, 51, 44, 50, 48, 50, 54, 45, 49, 48, 45, 51, 48, 44, 50, 44, 34, 50, 48, 194, 176, 67, 44, 32, 54, 48, 37, 34, 44, 111, 107, 10>>),
      File(<<115, 97, 109, 112, 108, 101, 95, 105, 100, 44, 112, 114, 111, 100, 117, 99, 116, 95, 105, 100, 44, 114, 101, 103, 95, 110, 117, 109, 98, 101, 114, 44, 100, 97, 116, 101, 95, 114, 101, 99, 101, 105, 118, 101, 100, 44, 115, 116, 111, 114, 97, 103, 101, 95, 100, 97, 121, 115, 44, 99, 111, 110, 100, 105, 116, 105, 111, 110, 115, 44, 110, 111, 116, 101, 115>>) }

\* values of the form of the save_sample handler
FormNotes == { <<>>, s_demo, <<97, 44, 32, 98>>, <<115, 97, 121, 32, 34, 111, 107, 34>> }     \* "", "демо", "a, b", "say "ok""
FormRows ==
    { sample_row(sid, pid, <<65, 45, 48, 48, 55>>, d_today, days, <<50, 49, 46, 48>>, 64, notes) :
        sid \in {1, 7}, pid \in {4, 5}, days \in {0, 3}, notes \in FormNotes }

\* the store f is in place and its load gave r
Appended(f, r, row) ==
    /\ stores' = [stores EXCEPT !.samples = f]
    /\ df' = IF r.ok THEN r.df ELSE df
    /\ pc' = IF r.ok THEN "saved" ELSE "error"
    /\ last' = IF r.ok THEN [op |-> "save_sample", ok |-> TRUE, row |-> row]
                ELSE [op |-> "save_sample", ok |-> FALSE, row |-> row, error |-> r.error]

\* the store f is written and loaded again
AppendedTo(f, row) == Appended(f, safe_read_csv(f), row)

\* app.py:798-805: the row is appended and the stores are loaded again
AppendSample(row) ==
    /\ pc = "form"
    /\ AppendedTo(append_row_csv(stores.samples, row, samples_cols), row)
    /\ UNCHANGED cache
    /\ UNCHANGED <<clock, norms, prod, steps, selected_step, shown_norm, prev, val, actual_numeric>>

\* the append over all bounded prior stores and form values
InitAppend ==
    /\ norms = default_norms
    /\ prod = [product_id |-> 5, name |-> name_ayran, type |-> "-", source |-> src_cow, description |-> ""]
    /\ steps = <<>>
    /\ selected_step = None
    /\ shown_norm = NoNorm
    /\ prev = NoPrev
    /\ val = [kind |-> "na"]
    /\ actual_numeric = NaN
    /\ stores \in {[samples |-> f] : f \in PriorSamples}
    /\ cache = NoCache
    /\ df = EmptyFrame
    /\ last = NoOp
    /\ clock = 0
    /\ pc = "form"

NextAppend == \E row \in FormRows : AppendSample(row)

SpecAppend == InitAppend /\ [][NextAppend]_vars

\* the text of a cell, the empty text for a missing value
CellText(cell) == IF cell.kind = "na" THEN <<>> ELSE cell.s

\* the number of rows the store loads to, 0 if it does not load
RowCount(f) == IF safe_read_csv(f).ok THEN Len(safe_read_csv(f).df.rows) ELSE 0

\* the last row of the table holds the values of row in the columns named
\* as cols_order names them
HoldsRow(t, row) ==
    /\ t.rows # <<>>
    /\ \A k \in 1..Len(samples_cols) :
          \E c \in 1..Len(t.columns) :
              /\ t.columns[c] = samples_cols[k]
              /\ CellText(t.rows[Len(t.rows)][c]) = row[samples_cols[k]]

\* C17: after the append of a Sample row and the reload, the table has one
\* more row than before and its new row holds the written values in the
\* canonical columns, whatever the store was before (absent, zero bytes,
\* only a header, rows, put in place by an upload); the header line is
\* written exactly when the store was absent or had zero bytes.
C17_AppendRoundTrip ==
    [][(pc = "form" /\ pc' # "form") =>
          /\ pc' = "saved"
          /\ Len(df'.rows) = RowCount(stores.samples) + 1
          /\ HoldsRow(normalize(df', samples_calls, 1), last'.row)
          /\ stores'.samples.bytes =
                (IF stores.samples.exists THEN stores.samples.bytes ELSE <<>>)
                \o (IF ~stores.samples.exists \/ stores.samples.bytes = <<>>
                    THEN BOM \o CsvLine(samples_cols) ELSE <<>>)
                \o CsvLine([k \in 1..Len(samples_cols) |-> last'.row[samples_cols[k]]])]_vars

-----------------------------------------------------------------------------
(* The data directory and the script run, app.py:111-216 *)

\* app.py:151-155: the tables of load_csvs, by the name of the variable
StoreNames == {"products", "samples", "measurements", "vitamins", "storage"}

s_name          == <<110, 97, 109, 101>>             \* "name"
s_type          == <<116, 121, 112, 101>>             \* "type"
s_source        == <<115, 111, 117, 114, 99, 101>>           \* "source"
s_description   == <<100, 101, 115, 99, 114, 105, 112, 116, 105, 111, 110>>      \* "description"
s_parameter     == <<112, 97, 114, 97, 109, 101, 116, 101, 114>>        \* "parameter"
s_unit          == <<117, 110, 105, 116>>             \* "unit"
s_actual_value  == <<97, 99, 116, 117, 97, 108, 95, 118, 97, 108, 117, 101>>     \* "actual_value"
s_method        == <<109, 101, 116, 104, 111, 100>>           \* "method"
s_value         == <<118, 97, 108, 117, 101>>            \* "value"
s_temperature_C == <<116, 101, 109, 112, 101, 114, 97, 116, 117, 114, 101, 95, 67>>    \* "temperature_C"
s_humidity_pct  == <<104, 117, 109, 105, 100, 105, 116, 121, 95, 112, 99, 116>>     \* "humidity_pct"

\* app.py:114-121
demo_products ==
    to_csv(<<s_product_id, s_name, s_type, s_source, s_description>>,
           << <<<<49>>, <<1052, 1086, 1083, 1086, 1082, 1086, 32, 40, 1082, 1086, 1088, 1086, 1074, 1100, 1077, 41>>, <<1084, 1086, 1083, 1086, 1082, 1086>>, <<1082, 1086, 1088, 1086, 1074, 1100, 1077>>, <<1057, 1074, 1077, 1078, 1077, 1077, 32, 1084, 1086, 1083, 1086, 1082, 1086>>>>,
              <<<<50>>, <<1052, 1086, 1083, 1086, 1082, 1086, 32, 40, 1082, 1086, 1079, 1100, 1077, 41>>, <<1084, 1086, 1083, 1086, 1082, 1086>>, <<1082, 1086, 1079, 1100, 1077>>, <<1057, 1074, 1077, 1078, 1077, 1077, 32, 1084, 1086, 1083, 1086, 1082, 1086>>>>,
              <<<<51>>, <<1057, 1072, 1088, 1099, 32, 1110, 1088, 1110, 1084, 1096, 1110, 1082, 32, 40, 1082, 1086, 1088, 1086, 1074, 1100, 1077, 41>>, <<1089, 1099, 1088>>, <<1082, 1086, 1088, 1086, 1074, 1100, 1077>>, <<1058, 1074, 1105, 1088, 1076, 1099, 1081, 32, 1089, 1099, 1088>>>>,
              <<<<52>>, <<1057, 1072, 1088, 1099, 32, 1110, 1088, 1110, 1084, 1096, 1110, 1082, 32, 40, 1082, 1086, 1079, 1100, 1077, 41>>, <<1089, 1099, 1088>>, <<1082, 1086, 1079, 1100, 1077>>, <<1058, 1074, 1105, 1088, 1076, 1099, 1081, 32, 1089, 1099, 1088>>>>,
              <<<<53>>, <<1040, 1081, 1088, 1072, 1085>>, <<1082, 1080, 1089, 1083, 1086, 1084, 1086, 1083, 1086, 1095, 1085, 1099, 1081>>, <<1082, 1086, 1088, 1086, 1074, 1100, 1077>>, <<1050, 1080, 1089, 1083, 1086, 1084, 1086, 1083, 1086, 1095, 1085, 1099, 1081, 32, 1087, 1088, 1086, 1076, 1091, 1082, 1090>>>> >>)

\* app.py:129-133
demo_measurements ==
    to_csv(<<s_id, s_sample_id, s_parameter, s_unit, s_actual_value, s_method>>,
           << <<<<49>>, <<49>>, <<1058, 1077, 1084, 1087, 1077, 1088, 1072, 1090, 1091, 1088, 1072>>, <<176, 67>>, <<52, 50>>, s_demo>>,
              <<<<50>>, <<49>>, <<112, 72>>, <<>>, <<52, 46, 51>>, s_demo>> >>)

\* app.py:135-138
demo_vitamins ==
    to_csv(<<s_name, s_unit, s_value>>, << <<<<86, 105, 116, 67>>, <<1084, 1075, 47, 49, 48, 48, 1075>>, <<48, 46, 57, 48>>>> >>)

\* app.py:140-143
demo_storage ==
    to_csv(<<s_sample_id, s_temperature_C, s_humidity_pct, s_duration_days>>,
           << <<<<49>>, <<52>>, <<55, 48>>, <<51>>>> >>)

demo ==
    [products |-> demo_products, samples |-> demo_samples, measurements |-> demo_measurements,
     vitamins |-> demo_vitamins, storage |-> demo_storage]

\* app.py:111-144: every store that does not exist is written with demo rows
_ensure_demo_csvs(dir) == [s \in StoreNames |-> IF dir[s].exists THEN dir[s] ELSE demo[s]]

\* app.py:150-154: the order of the reads of load_csvs
load_order == <<"products", "samples", "measurements", "vitamins", "storage">>

\* the cache entry holding the tables t
Loaded(t) == [loaded |-> TRUE, tables |-> t]

\* the tables of the reads r of the five stores, or the exception of the
\* first read, in the order of the reads, that raised
first_failure(r) ==
    LET bad == {k \in 1..Len(load_order) : ~r[load_order[k]].ok}
    IN  IF bad = {} THEN [ok |-> TRUE, tables |-> [s \in StoreNames |-> r[s].df]]
        ELSE r[load_order[CHOOSE k \in bad : \A j \in bad : k <= j]]

\* app.py:150-156: the body of load_csvs
load_csvs(dir) == first_failure([s \in StoreNames |-> safe_read_csv(dir[s])])

\* app.py:171-175, 187-192, 195-198: the ensure_col calls on the other tables
products_calls ==
    << [candidates |-> <<s_product_id, s_id>>, new_name |-> s_product_id],
       [candidates |-> <<s_name, <<112, 114, 111, 100, 117, 99, 116, 95, 110, 97, 109, 101>>, <<116, 105, 116, 108, 101>>>>, new_name |-> s_name],
       [candidates |-> <<s_type, <<99, 97, 116, 101, 103, 111, 114, 121>>>>, new_name |-> s_type],
       [candidates |-> <<s_source>>, new_name |-> s_source],
       [candidates |-> <<s_description>>, new_name |-> s_description] >>
measurements_calls ==
    << [candidates |-> <<s_id>>, new_name |-> s_id],
       [candidates |-> <<s_sample_id, <<115, 97, 109, 112, 108, 101>>>>, new_name |-> s_sample_id],
       [candidates |-> <<s_parameter, <<112, 97, 114, 97, 109>>, <<105, 110, 100, 105, 99, 97, 116, 111, 114>>>>, new_name |-> s_parameter],
       [candidates |-> <<s_actual_value, s_value, <<109, 101, 97, 115, 117, 114, 101, 109, 101, 110, 116>>>>, new_name |-> s_actual_value],
       [candidates |-> <<s_unit>>, new_name |-> s_unit],
       [candidates |-> <<s_method>>, new_name |-> s_method] >>
storage_calls ==
    << [candidates |-> <<s_sample_id>>, new_name |-> s_sample_id],
       [candidates |-> <<s_temperature_C, <<116, 101, 109, 112, 101, 114, 97, 116, 117, 114, 101, 95, 99>>, <<116, 101, 109, 112>>>>, new_name |-> s_temperature_C],
       [candidates |-> <<s_humidity_pct, <<104, 117, 109, 105, 100, 105, 116, 121>>>>, new_name |-> s_humidity_pct],
       [candidates |-> <<s_duration_days>>, new_name |-> s_duration_days] >>

\* the outcome of the head for the coerced tables p, s, m and g
head_result(d, t, p, s, m, g) ==
    IF p.ok /\ s.ok /\ m.ok /\ g.ok
    THEN [ok |-> TRUE, dir |-> d, cache |-> Loaded(t), products |-> p.df,
          samples |-> s.df, measurements |-> m.df]
    ELSE [ok |-> FALSE, dir |-> d, cache |-> Loaded(t), error |-> "TypeError"]

\* app.py:171-210: the columns of the loaded tables t are normalized and
\* the identifiers coerced
head_tables(d, t) ==
    head_result(d, t,
                to_intlike(normalize(t.products, products_calls, 1), s_product_id),
                then_intlike(to_intlike(normalize(t.samples, samples_calls, 1), s_sample_id),
                             s_product_id),
                to_intlike(normalize(t.measurements, measurements_calls, 1), s_sample_id),
                to_intlike(normalize(t.storage, storage_calls, 1), s_sample_id))

\* app.py:158: the load l of the run, which may have raised
head_loaded(d, c, l) ==
    IF ~l.ok THEN [ok |-> FALSE, dir |-> d, cache |-> c, error |-> l.error]
    ELSE head_tables(d, l.tables)

\* the files d are in place: the cache answers if it holds the tables
head_in(d, c) ==
    head_loaded(d, c, IF c.loaded THEN [ok |-> TRUE, tables |-> c.tables] ELSE load_csvs(d))

\* app.py:144-210: the head of every script run: the demo files, the cached
\* load, the normalization of the columns and the coercion of the
\* identifiers; an exception ends the run.  The result holds the directory
\* and the cache after it and the products, samples and measurements tables
\* of the run.
script_head(dir, c) == head_in(_ensure_demo_csvs(dir), c)

-----------------------------------------------------------------------------
(* The handlers of a session on the product page, app.py:327-353, 572-832 *)

\* the appends of a session stop at stores of MaxLines lines
MaxLines == 3

\* the number of line terminators in a store
Lines(f) == Cardinality({i \in 1..Len(f.bytes) : f.bytes[i] = c_lf})

\* app.py:572-607: name, key, unit and type of the fields of a step; value
\* is the text str() gives for the default of the input widget
Field(name, key, unit, type, value) ==
    [name |-> name, key |-> key, unit |-> unit, type |-> type, value |-> value]

STEP_FIELDS ==
    [clarify |->
        << Field(<<1058, 1077, 1084, 1087, 1077, 1088, 1072, 1090, 1091, 1088, 1072, 32, 1086, 1095, 1080, 1097, 1077, 1085, 1080, 1103>>, "t_clean", <<176, 67>>, "number", <<53, 46, 48>>),
           Field(<<1050, 1080, 1089, 1083, 1086, 1090, 1085, 1086, 1089, 1090, 1100>>, "acid_T", <<176, 1058>>, "number", <<48, 46, 48>>),
           Field(<<1057, 1086, 1088, 1090, 32, 1084, 1086, 1083, 1086, 1082, 1072>>, "grade", <<>>, "select", <<1042, 1099, 1089, 1096, 1080, 1081>>) >>,
     pasteurization |->
        << Field(<<1060, 1072, 1082, 1090, 1080, 1095, 1077, 1089, 1082, 1072, 1103, 32, 84, 32, 1087, 1072, 1089, 1090, 1077, 1088, 1080, 1079, 1072, 1094, 1080, 1080>>, "t_past", <<176, 67>>, "number", <<48, 46, 48>>),
           Field(<<1042, 1088, 1077, 1084, 1103, 32, 1074, 1099, 1076, 1077, 1088, 1078, 1082, 1080>>, "time_hold", <<1084, 1080, 1085>>, "number", <<48, 46, 48>>) >>,
     cool_to_inoc |-> << Field(<<84, 32, 1079, 1072, 1082, 1074, 1072, 1096, 1080, 1074, 1072, 1085, 1080, 1103>>, "t_inoc", <<176, 67>>, "number", <<48, 46, 48>>) >>,
     inoculation |-> << Field(<<1044, 1086, 1079, 1072, 32, 1079, 1072, 1082, 1074, 1072, 1089, 1082, 1080>>, "dose_culture", <<37>>, "number", <<48, 46, 48>>) >>,
     fermentation |->
        << Field(<<84, 32, 1089, 1082, 1074, 1072, 1096, 1080, 1074, 1072, 1085, 1080, 1103>>, "t_ferm", <<176, 67>>, "number", <<48, 46, 48>>),
           Field(<<1042, 1088, 1077, 1084, 1103, 32, 1089, 1082, 1074, 1072, 1096, 1080, 1074, 1072, 1085, 1080, 1103>>, "time_ferm", <<1095>>, "number", <<48, 46, 48>>) >>,
     salt |-> << Field(<<1057, 1086, 1083, 1100>>, "salt_pct", <<37>>, "number", <<49, 46, 56>>) >>,
     mix_water |-> << Field(<<1044, 1086, 1083, 1103, 32, 1074, 1086, 1076, 1099>>, "water_pct", <<37>>, "number", <<48, 46, 48>>) >>,
     cooling |-> << Field(<<1058, 1077, 1084, 1087, 1077, 1088, 1072, 1090, 1091, 1088, 1072, 32, 1086, 1093, 1083, 1072, 1078, 1076, 1077, 1085, 1080, 1103>>, "t_cool", <<176, 67>>, "number", <<48, 46, 48>>) >>,
     rennet |-> << Field(<<1050, 1086, 1083, 1080, 1095, 1077, 1089, 1090, 1074, 1086, 32, 1092, 1077, 1088, 1084, 1077, 1085, 1090, 1072>>, "rennet_ml", <<1084, 1083, 47, 49, 48, 48, 1083>>, "number", <<48, 46, 48>>) >>,
     press |-> << Field(<<1044, 1072, 1074, 1083, 1077, 1085, 1080, 1077, 47, 1074, 1088, 1077, 1084, 1103>>, "press_params", <<>>, "text", <<>>) >>]

\* app.py:725: STEP_FIELDS.get(sel, [])
fields_of(sel) == IF sel \in DOMAIN STEP_FIELDS THEN STEP_FIELDS[sel] ELSE <<>>

\* app.py:497-551, 674: the label kept in the session with the selected
\* step, for the steps that have fields
selected_step_label ==
    [clarify        |-> <<1054, 1095, 1080, 1089, 1090, 1082, 1072, 32, 1080, 32, 1089, 1086, 1088, 1090, 1080, 1088, 1086, 1074, 1082, 1072, 32, 40, 52, 8211, 54, 32, 176, 67, 41>>,
     pasteurization |-> <<1055, 1072, 1089, 1090, 1077, 1088, 1080, 1079, 1072, 1094, 1080, 1103, 32, 40, 54, 53, 8211, 54, 57, 32, 176, 67, 41>>,
     cool_to_inoc   |-> <<1054, 1093, 1083, 1072, 1078, 1076, 1077, 1085, 1080, 1077, 32, 1076, 1086, 32, 1079, 1072, 1082, 1074, 1072, 1096, 1080, 1074, 1072, 1085, 1080, 1103, 32, 40, 51, 53, 8211, 52, 53, 32, 176, 67, 41>>,
     inoculation    |-> <<1042, 1085, 1077, 1089, 1077, 1085, 1080, 1077, 32, 1079, 1072, 1082, 1074, 1072, 1089, 1082, 1080>>,
     fermentation   |-> <<1057, 1082, 1074, 1072, 1096, 1080, 1074, 1072, 1085, 1080, 1077, 32, 40, 50, 48, 8211, 50, 53, 32, 176, 67, 41>>,
     salt           |-> <<1044, 1086, 1073, 1072, 1074, 1083, 1077, 1085, 1080, 1077, 32, 1089, 1086, 1083, 1080, 32, 40, 49, 46, 53, 8211, 50, 37, 41>>,
     mix_water      |-> <<1057, 1084, 1077, 1096, 1080, 1074, 1072, 1085, 1080, 1077, 32, 1089, 32, 1074, 1086, 1076, 1086, 1081, 32, 47, 32, 1075, 1072, 1079, 1080, 1088, 1086, 1074, 1072, 1085, 1080, 1077>>,
     cooling        |-> <<1054, 1093, 1083, 1072, 1078, 1076, 1077, 1085, 1080, 1077, 32, 40, 50, 8211, 54, 32, 176, 67, 41>>,
     rennet         |-> <<1057, 1099, 1095, 1091, 1078, 1085, 1086, 1077, 32, 1089, 1074, 1077, 1088, 1090, 1099, 1074, 1072, 1085, 1080, 1077>>,
     press          |-> <<1057, 1072, 1084, 1086, 1087, 1088, 1077, 1089, 1089, 1086, 1074, 1072, 1085, 1080, 1077, 47, 1087, 1088, 1077, 1089, 1089, 1086, 1074, 1072, 1085, 1080, 1077>>]

\* the positions of the columns labelled name
Cols(d, name) == {c \in 1..Len(d.columns) : d.columns[c] = name}

\* the cell of row r in the only column labelled name
Cell(d, r, name) == d.rows[r][CHOOSE c \in Cols(d, name) : TRUE]

\* str() of a cell
str_of(cell) ==
    IF cell.kind = "str" THEN cell.s
    ELSE IF cell.kind = "num" THEN DecimalText(cell.n)
    ELSE <<110, 97, 110>>

\* app.py:623: the names of the products the catalog lacks
fallback_name(pid) ==
    IF pid = 1 THEN name_milk_cow
    ELSE IF pid = 2 THEN name_milk_goat
    ELSE IF pid = 3 THEN <<1057, 1072, 1088, 1099, 32, 1110, 1088, 1110, 1084, 1096, 1110, 1082, 32, 40, 1082, 1086, 1088, 1086, 1074, 1100, 1077, 41>>
    ELSE IF pid = 4 THEN <<1057, 1072, 1088, 1099, 32, 1110, 1088, 1110, 1084, 1096, 1110, 1082, 32, 40, 1082, 1086, 1079, 1100, 1077, 41>>
    ELSE IF pid = 5 THEN name_ayran
    ELSE <<1055, 1088, 1086, 1076, 1091, 1082, 1090, 32>> \o DecimalText(pid)

\* the columns of the products table a product dict is read for
prod_keys ==
    [name |-> s_name, type |-> s_type, source |-> s_source, description |-> s_description]

\* app.py:616-624: the dict of the first row of the products table whose
\* product_id is pid, or the fallback dict
product_of(products, pid) ==
    LET m == IF products.rows = <<>> \/ Cols(products, s_product_id) = {} THEN {}
             ELSE {r \in 1..Len(products.rows) :
                     Cell(products, r, s_product_id) = [kind |-> "num", n |-> pid]}
        keys == {k \in DOMAIN prod_keys : Cols(products, prod_keys[k]) # {}}
    IN  IF m = {}
        THEN [product_id |-> pid, name |-> fallback_name(pid), type |-> src_dash,
              source |-> src_dash, description |-> <<>>]
        ELSE [k \in keys \cup {"product_id"} |->
                 IF k = "product_id" THEN pid
                 ELSE str_of(Cell(products, CHOOSE r \in m : \A q \in m : r <= q,
                                  prod_keys[k]))]

\* app.py:697-700: the rows of the samples table of the product, by position
prod_samples(samples, pid) ==
    IF Cols(samples, s_product_id) = {} THEN {}
    ELSE {r \in 1..Len(samples.rows) : Cell(samples, r, s_product_id) = [kind |-> "num", n |-> pid]}

\* app.py:701-717: the journal of the samples and of their measurements is
\* shown before the forms; a column it selects and the table lacks, or
\* carries twice, raises and ends the run
journal_ok(samples, measurements, pid) ==
    LET ps  == prod_samples(samples, pid)
        sids == {Cell(samples, r, s_sample_id) : r \in ps}
        rel == IF Cols(measurements, s_sample_id) = {} THEN {}
               ELSE {r \in 1..Len(measurements.rows) :
                        /\ Cell(measurements, r, s_sample_id) \in sids
                        /\ Cell(measurements, r, s_sample_id).kind # "na"}
    IN  \/ ps = {}
        \/ /\ Cardinality(Cols(samples, s_date_received)) = 1
           /\ Cardinality(Cols(samples, s_sample_id)) = 1
           /\ \/ rel = {}
              \/ \A name \in {s_parameter, s_unit, s_actual_value} :
                    Cardinality(Cols(measurements, name)) = 1

\* app.py:772-777: one more than the largest sample_id, 1 if there is none
new_sid(samples) ==
    LET existing == IF Cols(samples, s_sample_id) = {} THEN {}
                    ELSE {Cell(samples, r, s_sample_id).n :
                            r \in {q \in 1..Len(samples.rows) :
                                     Cell(samples, q, s_sample_id).kind = "num"}}
    IN  IF existing = {} THEN 1
        ELSE (CHOOSE m \in existing : \A x \in existing : x <= m) + 1

\* f"A-{new_sid:03d}"
reg_number_of(sid) ==
    <<65, 45>> \o (IF sid < 10 THEN <<48, 48>> ELSE IF sid < 100 THEN <<48>> ELSE <<>>) \o DecimalText(sid)

\* variant: a name that contains "sample" goes to the Samples store even if
\* it contains "product"
upload_dest_sample_first(name) ==
    LET fname == Lower(name)
    IN  IF Contains(<<115, 97, 109, 112, 108, 101>>, fname) THEN "samples"
        ELSE IF Contains(<<112, 114, 111, 100, 117, 99, 116>>, fname) THEN "products"
        ELSE IF Contains(<<109, 101, 97, 115, 117, 114, 101>>, fname) \/ Contains(<<109, 101, 97, 115, 117, 114, 101, 109, 101, 110, 116>>, fname) THEN "measurements"
        ELSE IF Contains(<<118, 105, 116, 97, 109, 105, 110>>, fname) \/ Contains(<<97, 109, 105, 110, 111>>, fname) THEN "vitamins"
        ELSE IF Contains(<<115, 116, 111, 114, 97, 103, 101>>, fname) THEN "storage"
        ELSE None

\* app.py:329-342: the store an uploaded file goes to, by its name
upload_dest(name) ==
    LET fname == Lower(name)
    IN  IF Contains(<<112, 114, 111, 100, 117, 99, 116>>, fname) THEN "products"
        ELSE IF Contains(<<115, 97, 109, 112, 108, 101>>, fname) THEN "samples"
        ELSE IF Contains(<<109, 101, 97, 115, 117, 114, 101>>, fname) \/ Contains(<<109, 101, 97, 115, 117, 114, 101, 109, 101, 110, 116>>, fname) THEN "measurements"
        ELSE IF Contains(<<118, 105, 116, 97, 109, 105, 110>>, fname) \/ Contains(<<97, 109, 105, 110, 111>>, fname) THEN "vitamins"
        ELSE IF Contains(<<115, 116, 111, 114, 97, 103, 101>>, fname) THEN "storage"
        ELSE None

\* the cache after the load l into an empty cache
Cached(l) == IF l.ok THEN Loaded(l.tables) ELSE NoCache

\* variant: the cache is not cleared, so load_csvs returns what it holds
reload_stale(dir) == cache

\* app.py:346-347, 763-764, 801-802, 830-831: st.cache_data.clear() and
\* load_csvs(): the cache holds the tables of a load that returned
reload(dir) == Cached(load_csvs(dir))

\* the end of an interaction: the files dir and the cache c it leaves and
\* its outcome, where ok tells whether the cache was cleared and the load
\* after it returned, with the tables the head of a script run derives
After(dir, c, cleared, outcome) ==
    /\ stores' = dir
    /\ cache' = c
    /\ last' = [outcome EXCEPT !.ok = cleared /\ c.loaded]
    /\ df' = IF dir = stores /\ c = cache THEN df ELSE script_head(dir, c)

\* the end of an interaction of a run with head h: if it cleared the cache,
\* the files dir were in place and were loaded again
Ended(h, cleared, dir, outcome) ==
    After(IF cleared THEN dir ELSE h.dir, IF cleared THEN reload(dir) ELSE h.cache,
          cleared, outcome)

\* the session is on the product page, the steps are derived and the head
\* of the script run went through
OnPage(h) == pc = "derived" /\ h.ok

\* the selected step's details are shown with the journal, so the run
\* reaches the forms
FormsShown(h) ==
    /\ OnPage(h)
    /\ selected_step # None
    /\ journal_ok(h.samples, h.measurements, prod.product_id)

\* app.py:616-624, 668, 686-689: the product page of a run with head h: the
\* product dict is looked up in the products table of the run, the steps
\* are derived from it and the norm of the selected step is looked up in
\* them; a run that ends in the head shows nothing new
Page(h) ==
    IF ~h.ok THEN UNCHANGED <<prod, steps, shown_norm>>
    ELSE /\ prod' = product_of(h.products, prod.product_id)
         /\ steps' = _product_steps(prod')
         /\ shown_norm' = IF selected_step = None THEN NoNorm
                          ELSE norm_of(selected_step, steps')

\* app.py:327-353: a script run with file u in the upload widget; wok tells
\* whether the destination can be written.  After a write and a load the
\* script reruns, and with the file still in the widget every rerun writes
\* the same bytes and loads again, which changes nothing further.
Upload(u, wok) ==
    LET h == df
        dest == upload_dest(u.name)
        wrote == dest # None /\ wok
    IN  /\ OnPage(h)
        /\ Ended(h, wrote, [h.dir EXCEPT ![dest] = File(u.content)],
                 [op |-> "upload", name |-> u.name, written |-> wrote, ok |-> FALSE])
        /\ Page(df')
        /\ UNCHANGED <<clock, norms, selected_step, prev, val, actual_numeric, pc>>

\* app.py:770-805: the form of a new sample is submitted with its default
\* identifier and registration number
SaveSample(notes, wok) ==
    LET h == df
    IN  /\ FormsShown(h)
        /\ Lines(h.dir.samples) < MaxLines
        /\ LET sid == new_sid(h.samples)
               row == sample_row(sid, prod.product_id, reg_number_of(sid), d_today, 0,
                                 <<50, 49, 46, 48>>, 64, notes)
           IN  Ended(h, wok, [h.dir EXCEPT !.samples = append_row_csv(@, row, samples_cols)],
                     [op |-> "save_sample", written |-> wok, ok |-> FALSE])
        /\ UNCHANGED <<clock, norms, prod, steps, selected_step, shown_norm, prev, val, actual_numeric, pc>>

\* app.py:747-756: the rows of the fields of the step, with the identifiers
\* base_id, base_id + 1, ... and the values of the form
param_rows(sel, sample_id, base_id) ==
    [j \in 1..Len(fields_of(sel)) |->
        << DecimalText(base_id + j - 1),
           DecimalText(sample_id),
           selected_step_label[sel] \o <<58, 32>> \o fields_of(sel)[j].name,
           fields_of(sel)[j].unit,
           fields_of(sel)[j].value,
           <<1101, 1090, 1072, 1087, 47, 1092, 1086, 1088, 1084, 1072>> >>]

measurements_cols == <<s_id, s_sample_id, s_parameter, s_unit, s_actual_value, s_method>>

\* app.py:719-768: the form of the parameters of the selected step is
\* submitted for the sample at row `choice` of the samples of the product,
\* at the time `now` in whole seconds, which is not before the time of an
\* earlier run
SaveParams(choice, now, wok) ==
    LET h == df
    IN  /\ FormsShown(h)
        /\ now >= clock
        /\ clock' = now
        /\ Lines(h.dir.measurements) <= MaxLines
        /\ choice \in prod_samples(h.samples, prod.product_id)
        /\ LET sample_choice == Cell(h.samples, choice, s_sample_id)
               rows == IF sample_choice.kind = "num"
                       THEN param_rows(selected_step, sample_choice.n, now) ELSE <<>>
               wrote == sample_choice.kind = "num" /\ rows # <<>> /\ wok
           IN  Ended(h, wrote,
                     [h.dir EXCEPT !.measurements =
                         to_csv_append(@, measurements_cols, rows,
                                       ~@.exists \/ Len(@.bytes) = 0)],
                     [op |-> "save_params", written |-> wrote, ok |-> FALSE])
        /\ UNCHANGED <<norms, prod, steps, selected_step, shown_norm, prev, val, actual_numeric, pc>>

\* app.py:743-746: the form of the parameters is submitted when the product
\* has no sample
SaveParamsNoSample ==
    LET h == df
    IN  /\ FormsShown(h)
        /\ prod_samples(h.samples, prod.product_id) = {}
        /\ last' = [op |-> "save_params", written |-> FALSE, ok |-> FALSE]
        /\ UNCHANGED <<stores, cache, df>>
        /\ UNCHANGED <<clock, norms, prod, steps, selected_step, shown_norm, prev, val, actual_numeric, pc>>

\* app.py:828-832: the refresh button clears the cache and loads again; a
\* load that raises ends the run
Refresh ==
    LET h == df
    IN  /\ OnPage(h)
        /\ Ended(h, TRUE, h.dir, [op |-> "refresh", written |-> FALSE, ok |-> FALSE])
        /\ UNCHANGED <<clock, norms, prod, steps, selected_step, shown_norm, prev, val, actual_numeric, pc>>

\* app.py:144-210: an interaction whose script run ends in the head
ScriptRunFails ==
    LET h == df
    IN  /\ pc = "derived"
        /\ ~h.ok
        /\ last' = [op |-> "run", written |-> FALSE, ok |-> FALSE, error |-> h.error]
        /\ UNCHANGED <<stores, cache, df>>
        /\ UNCHANGED <<clock, norms, prod, steps, selected_step, shown_norm, prev, val, actual_numeric, pc>>

\* the step cards clicked in the session: one without fields, one with two
Clicked == {1, 5}

\* files put into the upload widget
upload_samples ==
    LET b == to_csv(samples_cols,
                    << <<<<51>>, <<52>>, <<65, 45, 48, 48, 51>>, <<50, 48, 50, 54, 45, 49, 48, 45, 51, 48>>, <<50>>, <<50, 48, 176, 67, 44, 32, 54, 48, 37>>, <<111, 107>>>> >>).bytes
    IN  SubSeq(b, 1, Len(b) - 1)
Uploads ==
    { [name |-> <<112, 114, 111, 100, 117, 99, 116, 95, 115, 97, 109, 112, 108, 101, 115, 46, 99, 115, 118>>, content |-> demo_products.bytes],
      [name |-> <<83, 97, 109, 112, 108, 101, 115, 46, 67, 83, 86>>, content |-> upload_samples],
      [name |-> <<109, 101, 97, 115, 117, 114, 101, 109, 101, 110, 116, 115, 46, 99, 115, 118>>, content |-> <<>>],
      [name |-> <<97, 109, 105, 110, 111, 46, 99, 115, 118>>, content |-> demo_vitamins.bytes],
      [name |-> <<100, 97, 116, 97, 46, 99, 115, 118>>, content |-> upload_samples] }

Notes == { <<111, 107>> }

\* the time of the first script run of the session, 2026-11-02 00:00:00 UTC
started == 1793577600
\* the times of the script runs that save parameters
Times == { started }

\* the session after the first script run in a directory without stores,
\* on the page of the product
Init ==
    /\ norms = default_norms
    /\ selected_step = None
    /\ shown_norm = NoNorm
    /\ prev = NoPrev
    /\ val = [kind |-> "na"]
    /\ actual_numeric = NaN
    /\ stores = _ensure_demo_csvs([s \in StoreNames |-> NoFile])
    /\ cache = Loaded(load_csvs(stores).tables)
    /\ df = script_head(stores, cache)
    /\ prod = product_of(df.products, 5)
    /\ steps = _product_steps(prod)
    /\ last = NoOp
    /\ clock = started
    /\ pc = "derived"

Next ==
    \/ OnPage(df) /\ \E i \in Clicked : SelectStep(i)
    \/ OnPage(df) /\ goto_product(prod)
    \/ DeriveSteps
    \/ \E u \in Uploads, wok \in BOOLEAN : Upload(u, wok)
    \/ \E notes \in Notes, wok \in BOOLEAN : SaveSample(notes, wok)
    \/ \E choice \in 1..MaxLines, now \in Times, wok \in BOOLEAN : SaveParams(choice, now, wok)
    \/ SaveParamsNoSample
    \/ Refresh
    \/ ScriptRunFails

Spec == Init /\ [][Next]_vars

-----------------------------------------------------------------------------
(* Properties of the stores and of the cache in a session *)

\* the keywords of the stores, in the order in which the names are tried
Keywords ==
    << [store |-> "products", words |-> {<<112, 114, 111, 100, 117, 99, 116>>}],
       [store |-> "samples", words |-> {<<115, 97, 109, 112, 108, 101>>}],
       [store |-> "measurements", words |-> {<<109, 101, 97, 115, 117, 114, 101>>}],
       [store |-> "vitamins", words |-> {<<118, 105, 116, 97, 109, 105, 110>>, <<97, 109, 105, 110, 111>>}],
       [store |-> "storage", words |-> {<<115, 116, 111, 114, 97, 103, 101>>}] >>

\* the places of Keywords with a word the lower-cased name contains
Matches(name) == {k \in 1..Len(Keywords) : \E w \in Keywords[k].words : Contains(w, Lower(name))}

\* the store of the first keyword the name contains
Inferred(name) == Keywords[CHOOSE k \in Matches(name) : \A j \in Matches(name) : k <= j].store

\* the operations that write a store
Writes == {"upload", "save_sample", "save_params"}

\* C18: an upload whose file name contains none of the keywords leaves the
\* five stores and the cached snapshot as they were and writes nothing; an
\* upload whose name contains a keyword leaves every store but the one
\* inferred from the name as it was.
C18_UploadFrame ==
    [][last'.op = "upload" =>
          IF Matches(last'.name) = {}
          THEN stores' = stores /\ cache' = cache /\ ~last'.written
          ELSE \A s \in StoreNames \ {Inferred(last'.name)} : stores'[s] = stores[s]]_vars

\* the Samples store holds an uploaded file and, after that, a file whose
\* name has no keyword was offered
C18_Witness ==
    /\ last.op = "upload"
    /\ Matches(last.name) = {}
    /\ stores.samples = File(upload_samples)
    /\ \A s \in StoreNames \ {"samples"} : stores[s] = demo[s]

\* the bytes of a are the first bytes of b
IsPrefix(a, b) == Len(a) <= Len(b) /\ SubSeq(b, 1, Len(a)) = a

\* C19 as stated: no operation of the session (add sample, save step
\* parameters, upload, refresh, reset) changes or removes what a store
\* holds: the content of every store stays the head of its later content,
\* so a Sample row once appended stays where it is.
C19_Original ==
    [][\A s \in StoreNames : IsPrefix(stores[s].bytes, stores'[s].bytes)]_vars

\* the step is an upload that wrote store s
Replaced(s) == last'.op = "upload" /\ last'.written /\ Inferred(last'.name) = s

\* C19 amended: an upload replaces the store inferred from its name; every
\* other operation, and an upload for every other store, leaves the content
\* of a store as the head of its later content.
C19_Amended ==
    [][\A s \in StoreNames : Replaced(s) \/ IsPrefix(stores[s].bytes, stores'[s].bytes)]_vars

\* the line of the first sample added to the demo store
added_line ==
    CsvLine([k \in 1..Len(samples_cols) |->
               sample_row(2, 5, reg_number_of(2), d_today, 0, <<50, 49, 46, 48>>, 64, <<111, 107>>)[samples_cols[k]]])

\* a sample was added to the demo store and then an upload wrote another
\* store: the line of the sample is where it was written
C19_Witness ==
    /\ last.op = "upload"
    /\ last.written
    /\ Inferred(last.name) # "samples"
    /\ stores.samples.bytes = demo_samples.bytes \o added_line

\* the tables t are those of the load l
Fresh(t, l) == l.ok /\ t = l.tables

\* C20: whenever the cache holds a snapshot, it is what load_csvs reads from
\* the five stores as they are; an operation that wrote a store leaves the
\* cache holding the snapshot of a load made after the write, or empty if
\* that load raised; an operation whose write failed leaves the stores and
\* the cache as they were.
C20_CacheFollowsStores ==
    /\ [](cache.loaded => Fresh(cache.tables, load_csvs(stores)))
    /\ [][last'.op \in Writes =>
            IF last'.written THEN cache'.loaded = last'.ok
            ELSE stores' = stores /\ cache' = cache]_vars

\* step parameters were saved and the snapshot holds the new measurements
C20_Witness ==
    /\ last.op = "save_params"
    /\ last.written
    /\ cache.loaded
    /\ Len(cache.tables.measurements.rows) = 4

-----------------------------------------------------------------------------
(* The keys of the Samples and Measurements stores, app.py:743-805 *)

\* a Samples store that lists product_id before sample_id and holds the
\* sample 5 of the product 5
reordered_samples ==
    to_csv(<<s_product_id, s_sample_id, s_reg_number, s_date_received, s_storage_days,
             s_conditions, s_notes>>,
           << <<<<53>>, <<53>>, <<65, 45, 48, 48, 53>>, <<50, 48, 50, 54, 45, 49, 48, 45, 51, 48>>, <<50>>, <<50, 48, 176, 67, 44, 32, 54, 48, 37>>, <<111, 107>>>> >>)

\* the Samples stores a session starts from: none, so that the demo store
\* is written; one whose last line has no terminator; one in another
\* column order.  Each holds pairwise distinct sample_ids.
KeyStores == {NoFile, File(upload_samples), reordered_samples}

\* a Measurements store that holds its header only
no_measurements == to_csv(measurements_cols, <<>>)

\* the times of the script runs that save parameters: the same second and
\* the next one
Seconds == {started, started + 1}

\* the session after the first script run in a directory with the Samples
\* store f, on the page of the product
InitKeys ==
    /\ norms = default_norms
    /\ selected_step = None
    /\ shown_norm = NoNorm
    /\ prev = NoPrev
    /\ val = [kind |-> "na"]
    /\ actual_numeric = NaN
    /\ \E f \in KeyStores :
          stores = _ensure_demo_csvs([s \in StoreNames |->
                       IF s = "samples" THEN f
                       ELSE IF s = "measurements" THEN no_measurements ELSE NoFile])
    /\ cache = Loaded(load_csvs(stores).tables)
    /\ df = script_head(stores, cache)
    /\ prod = product_of(df.products, 5)
    /\ steps = _product_steps(prod)
    /\ last = NoOp
    /\ clock = started
    /\ pc = "derived"

NextKeys ==
    \/ OnPage(df) /\ \E i \in Clicked : SelectStep(i)
    \/ \E notes \in Notes : SaveSample(notes, TRUE)
    \/ \E choice \in 1..MaxLines, now \in Seconds : SaveParams(choice, now, TRUE)
    \/ SaveParamsNoSample
    \/ Refresh

SpecKeys == InitKeys /\ [][NextKeys]_vars

\* the cells of the column labelled name, by row
Keys(d, name) ==
    IF Cols(d, name) = {} THEN <<>> ELSE [r \in 1..Len(d.rows) |-> Cell(d, r, name)]

\* no two rows hold the same key
Unique(k) == \A r, q \in 1..Len(k) : r # q => k[r] # k[q]

\* C21: sample_id stays a unique key: when the sample_ids of the Samples
\* table are pairwise distinct and a sample is added, the sample_ids of the
\* table loaded after it are pairwise distinct.
C21_SampleIdUnique ==
    [][(/\ last'.op = "save_sample" /\ last'.ok
        /\ df.ok /\ df'.ok
        /\ Unique(Keys(df.samples, s_sample_id)))
          => Unique(Keys(df'.samples, s_sample_id))]_vars

\* C22: the measurement id stays a unique key: when the ids of the
\* Measurements table are pairwise distinct and the parameters of a step
\* are saved, in the same second as an earlier save or a second after it,
\* the ids of the table loaded after it are pairwise distinct.
C22_MeasurementIdUnique ==
    [][(/\ last'.op = "save_params" /\ last'.ok
        /\ df.ok /\ df'.ok
        /\ Unique(Keys(df.measurements, s_id)))
          => Unique(Keys(df'.measurements, s_id))]_vars

-----------------------------------------------------------------------------
(* The selected step across navigation and uploads of the product catalog,
   app.py:297-371, 423-424, 616-693 *)

\* a product catalog in which the product 5 is goat milk
goat_catalog ==
    to_csv(<<s_product_id, s_name, s_type, s_source, s_description>>,
           << <<<<53>>, name_milk_goat, <<1084, 1086, 1083, 1086, 1082, 1086>>, src_goat, <<1057, 1074, 1077, 1078, 1077, 1077, 32, 1084, 1086, 1083, 1086, 1082, 1086>>>> >>).bytes

\* files put into the upload widget: two catalogs and a file without bytes
CatalogUploads ==
    { [name |-> <<112, 114, 111, 100, 117, 99, 116, 115, 46, 99, 115, 118>>, content |-> goat_catalog],
      [name |-> <<80, 114, 111, 100, 117, 99, 116, 115, 95, 100, 101, 109, 111, 46, 99, 115, 118>>, content |-> demo_products.bytes],
      [name |-> <<112, 114, 111, 100, 117, 99, 116, 46, 99, 115, 118>>, content |-> <<>>] }

\* the products opened from the main page
Opened == {2, 5}

\* app.py:630-632: the back button of the product page shows the main page;
\* the selected step stays in the session
back_to_products ==
    /\ OnPage(df)
    /\ pc' = "main"
    /\ UNCHANGED <<clock, norms, prod, steps, selected_step, shown_norm, prev, val, actual_numeric>>
    /\ UNCHANGED dataVars

\* app.py:423-424: the quick action of the main page shows the product page
\* of the selected product; the selected step stays in the session
quick_product ==
    /\ pc = "main"
    /\ steps' = <<>>
    /\ pc' = "page"
    /\ UNCHANGED <<clock, norms, prod, selected_step, shown_norm, prev, val, actual_numeric>>
    /\ UNCHANGED dataVars

\* app.py:306-318: the sidebar radio changes the page, from the product page
\* to the main page or back, and resets the selected step
navigate ==
    /\ pc = "main" \/ OnPage(df)
    /\ selected_step' = None
    /\ shown_norm' = NoNorm
    /\ steps' = IF pc = "main" THEN <<>> ELSE steps
    /\ pc' = IF pc = "main" THEN "page" ELSE "main"
    /\ UNCHANGED <<clock, norms, prod, prev, val, actual_numeric>>
    /\ UNCHANGED dataVars

\* the session after the first script run in a directory without stores,
\* on the page of the product 5
InitCatalog == Init

NextCatalog ==
    \/ OnPage(df) /\ \E i \in 1..Len(steps) : SelectStep(i)
    \/ OnPage(df) /\ \E pid \in Opened : goto_product(product_of(df.products, pid))
    \/ DeriveSteps
    \/ \E u \in CatalogUploads, wok \in BOOLEAN : Upload(u, wok)
    \/ back_to_products
    \/ quick_product
    \/ navigate
    \/ Refresh
    \/ ScriptRunFails

SpecCatalog == InitCatalog /\ [][NextCatalog]_vars

\* C23: whenever the product page shows the details of a selected step, the
\* selected step is one of the steps derived for the selected product.
C23_SelectedStepDerived ==
    (pc = "derived" /\ df.ok /\ selected_step # None) => HasStep(selected_step)

====
